---- MODULE Spec2Model ----
(***************************************************************************)
(* A model of sw, the terminal stopwatch: the duration parser              *)
(* (src/src/parse.rs, src/src/parse/sw.rs, src/src/parse/unit.rs) and the  *)
(* command loop that feeds it (src/src/state.rs).                          *)
(*                                                                         *)
(* Text is a sequence of grapheme clusters.  Every cluster has a byte      *)
(* length, so that spans are byte ranges as in the source.  Numbers that   *)
(* must keep the width of u64 are sequences of decimal digits, least       *)
(* significant digit first, because the checker's integers are narrower    *)
(* than 64 bits.                                                           *)
(***************************************************************************)
EXTENDS Integers, Sequences, FiniteSets, TLC

VARIABLES
    input,      \* the text handed to the parser
    allow_neg,  \* the allow_neg flag of the call
    entry,      \* the function called: "parse", "parse_as_sw",
                \* "parse_as_unit", "parse_frac" or "DurationFmt"
    frac_places,\* the width handed to parse_frac
    frac_ret,   \* the value parse_frac returned
    dfmt,       \* the DurationFmt whose text is parsed, NoFmt without one
    pc,         \* position of the call: "call", "scan", "done"
    content,    \* SwLexer.content: number of clusters not yet consumed
    cur,        \* parse_as_sw: the current group
    groups,     \* parse_as_sw: the span of each group
    is_neg,     \* parse_as_sw: "none", "pos" or "neg" (Option<bool>)
    neg_span,   \* parse_as_sw: span of the accepted minus sign
    scanned,    \* parse_as_sw: the tokens consumed so far, in scan order
    result,     \* the value returned
    clock,      \* Instant::now(): the monotonic clock, in whole seconds
    steps,      \* the calls or commands made so far
    watch,      \* a Stopwatch that is called directly
    op,         \* the last call on watch: its name, argument, result, the
                \* stopwatch before it and the instant of the call
    state,      \* State: sw, since_stop and prec
    cmd         \* the last command of State::update and what it reported

\* The variables of the parser and of a call of it.
ParserVars ==
    <<input, allow_neg, entry, frac_places, frac_ret, dfmt, pc, content,
      cur, groups, is_neg, neg_span, scanned, result>>

\* The variables of the stopwatch and of the command loop.
AppVars == <<clock, steps, watch, op, state, cmd>>

vars == <<ParserVars, AppVars>>

(***************************************************************************)
(* Grapheme clusters                                                       *)
(***************************************************************************)

\* The digits, as clusters.
Digits == {"0", "1", "2", "3", "4", "5", "6", "7", "8", "9"}

\* The value of a digit cluster.
DigitVal(c) ==
    CASE c = "0" -> 0 [] c = "1" -> 1 [] c = "2" -> 2 [] c = "3" -> 3
      [] c = "4" -> 4 [] c = "5" -> 5 [] c = "6" -> 6 [] c = "7" -> 7
      [] c = "8" -> 8 [] c = "9" -> 9

\* The digit cluster of a value 0..9.
DigitChr(d) == CHOOSE c \in Digits : DigitVal(c) = d

\* A cluster of several bytes (the potted plant emoji of the tests).
Plant == "plant"

\* Byte length of a cluster: str::len of the grapheme.
CLen(c) == IF c = Plant THEN 4 ELSE 1

\* char::is_whitespace on every char of the cluster.
IsWs(c) == c = " "

RECURSIVE ByteLen(_)
\* str::len: the byte length of a text.
ByteLen(s) ==
    IF s = <<>> THEN 0
    ELSE IF Len(s) = 1 THEN CLen(s[1])
    ELSE LET h == Len(s) \div 2
         IN  ByteLen(SubSeq(s, 1, h)) + ByteLen(SubSeq(s, h + 1, Len(s)))

\* Byte offset of cluster i of s (grapheme_indices); i = Len(s) + 1 gives
\* the length of s.
Off(s, i) == ByteLen(SubSeq(s, 1, i - 1))

\* The clusters in reverse order.
Rev(s) == [i \in 1..Len(s) |-> s[Len(s) + 1 - i]]

RECURSIVE trim_start(_)
\* str::trim_start
trim_start(s) ==
    IF s # <<>> /\ IsWs(Head(s)) THEN trim_start(Tail(s)) ELSE s

RECURSIVE trim_end(_)
\* str::trim_end
trim_end(s) ==
    IF s # <<>> /\ IsWs(s[Len(s)]) THEN trim_end(SubSeq(s, 1, Len(s) - 1))
    ELSE s

\* str::trim
trim(s) == trim_start(trim_end(s))

(***************************************************************************)
(* Unsigned 64-bit numbers and core::time::Duration                        *)
(***************************************************************************)

\* Digit i of a number, zero above its most significant digit.
BigDigit(a, i) == IF i <= Len(a) THEN a[i] ELSE 0

\* Drop the most significant zeros: the canonical form of a number.
BigNorm(a) ==
    IF \A i \in 1..Len(a) : a[i] = 0 THEN <<>>
    ELSE SubSeq(a, 1, CHOOSE i \in 1..Len(a) :
                          /\ a[i] # 0
                          /\ \A j \in (i + 1)..Len(a) : a[j] = 0)

\* Five decimal digits of a number taken together, the j-th such limb from
\* the least significant end: the arithmetic below carries between limbs
\* rather than between digits.
BigLimb(a, j) ==
    BigDigit(a, 5 * j - 4) + 10 * BigDigit(a, 5 * j - 3)
    + 100 * BigDigit(a, 5 * j - 2) + 1000 * BigDigit(a, 5 * j - 1)
    + 10000 * BigDigit(a, 5 * j)

\* The number of six limbs, each below 100000: thirty digits, more than
\* any sum or product of u64 values formed here.
BigOfLimbs(l) ==
    LET p == <<1, 10, 100, 1000, 10000>>
    IN  BigNorm([i \in 1..30 |->
                    (l[((i - 1) \div 5) + 1] \div p[((i - 1) % 5) + 1]) % 10])

\* A number below 2^31.
BigFromNat(n) == BigOfLimbs(<<n % 100000, n \div 100000, 0, 0, 0, 0>>)

\* Only for numbers of at most nine digits.
BigToNat(a) ==
    BigLimb(a, 1)
    + 100000 * (BigDigit(a, 6) + 10 * BigDigit(a, 7) + 100 * BigDigit(a, 8)
                + 1000 * BigDigit(a, 9))

\* a + b
BigAdd(a, b) ==
    LET s1 == BigLimb(a, 1) + BigLimb(b, 1)
        s2 == BigLimb(a, 2) + BigLimb(b, 2) + (s1 \div 100000)
        s3 == BigLimb(a, 3) + BigLimb(b, 3) + (s2 \div 100000)
        s4 == BigLimb(a, 4) + BigLimb(b, 4) + (s3 \div 100000)
        s5 == BigLimb(a, 5) + BigLimb(b, 5) + (s4 \div 100000)
        s6 == BigLimb(a, 6) + BigLimb(b, 6) + (s5 \div 100000)
    IN  BigOfLimbs(<<s1 % 100000, s2 % 100000, s3 % 100000, s4 % 100000,
                     s5 % 100000, s6 % 100000>>)

\* a - b for b <= a, borrowing between limbs.
BigSub(a, b) ==
    LET d1 == BigLimb(a, 1) - BigLimb(b, 1)
        d2 == BigLimb(a, 2) - BigLimb(b, 2) - (IF d1 < 0 THEN 1 ELSE 0)
        d3 == BigLimb(a, 3) - BigLimb(b, 3) - (IF d2 < 0 THEN 1 ELSE 0)
        d4 == BigLimb(a, 4) - BigLimb(b, 4) - (IF d3 < 0 THEN 1 ELSE 0)
        d5 == BigLimb(a, 5) - BigLimb(b, 5) - (IF d4 < 0 THEN 1 ELSE 0)
        d6 == BigLimb(a, 6) - BigLimb(b, 6) - (IF d5 < 0 THEN 1 ELSE 0)
    IN  BigOfLimbs(<<d1 % 100000, d2 % 100000, d3 % 100000, d4 % 100000,
                     d5 % 100000, d6 % 100000>>)

\* a * k for a small factor k.
BigMul(a, k) ==
    LET t1 == BigLimb(a, 1) * k
        t2 == BigLimb(a, 2) * k + (t1 \div 100000)
        t3 == BigLimb(a, 3) * k + (t2 \div 100000)
        t4 == BigLimb(a, 4) * k + (t3 \div 100000)
        t5 == BigLimb(a, 5) * k + (t4 \div 100000)
        t6 == BigLimb(a, 6) * k + (t5 \div 100000)
    IN  BigOfLimbs(<<t1 % 100000, t2 % 100000, t3 % 100000, t4 % 100000,
                     t5 % 100000, t6 % 100000>>)

\* a / k and a % k for a small divisor k: long division from the topmost
\* limb down.
BigDivMod(a, k) ==
    LET r6 == BigLimb(a, 6)
        r5 == (r6 % k) * 100000 + BigLimb(a, 5)
        r4 == (r5 % k) * 100000 + BigLimb(a, 4)
        r3 == (r4 % k) * 100000 + BigLimb(a, 3)
        r2 == (r3 % k) * 100000 + BigLimb(a, 2)
        r1 == (r2 % k) * 100000 + BigLimb(a, 1)
    IN  [quot |-> BigOfLimbs(<<r1 \div k, r2 \div k, r3 \div k, r4 \div k,
                               r5 \div k, r6 \div k>>),
         rem  |-> r1 % k]

\* a < b for numbers of the same length: smaller at the topmost digit
\* where they differ.
BigLessTop(a, b) ==
    \E i \in 1..Len(a) :
        /\ a[i] < b[i]
        /\ \A j \in (i + 1)..Len(a) : a[j] = b[j]

BigLess(a, b) ==
    IF Len(a) # Len(b) THEN Len(a) < Len(b) ELSE BigLessTop(a, b)

BigLeq(a, b) == a = b \/ BigLess(a, b)

\* The number written by a sequence of digit clusters.
BigOfDigits(ds) == BigNorm(Rev([i \in 1..Len(ds) |-> DigitVal(ds[i])]))

\* u64::MAX = 18446744073709551615.
U64Max ==
    BigOfDigits(<<"1", "8", "4", "4", "6", "7", "4", "4", "0", "7", "3",
                  "7", "0", "9", "5", "5", "1", "6", "1", "5">>)

\* u64::checked_add and u64::checked_mul: the exact result, and whether it
\* fits.
FitsU64(a) == BigLeq(a, U64Max)

\* Nanoseconds per second, the exclusive bound of Duration's nanos.
NanosPerSec == 1000000000

\* Number of decimal digits of a whole second in nanoseconds.
NanosDigits == 9

\* A Duration: whole seconds (u64) and nanoseconds below one second.
Dur(secs, nanos) == [secs |-> secs, nanos |-> nanos]

\* Duration::ZERO
DurZero == Dur(<<>>, 0)

\* Duration::from_secs
from_secs(secs) == Dur(secs, 0)

\* Option<Duration>
NoDur == [secs |-> <<>>, nanos |-> -1]

\* An addition of durations that lets the seconds leave 64 bits.
dur_add_Unchecked(a, b) ==
    Dur(BigAdd(a.secs, b.secs), (a.nanos + b.nanos) % NanosPerSec)

\* Duration::checked_add: NoDur on overflow of the seconds.
dur_checked_add(a, b) ==
    LET n     == a.nanos + b.nanos
        carry == IF n >= NanosPerSec THEN 1 ELSE 0
        secs  == BigAdd(BigAdd(a.secs, b.secs), BigFromNat(carry))
    IN  IF FitsU64(secs) THEN Dur(secs, n - carry * NanosPerSec) ELSE NoDur

\* Duration::checked_mul by a u32 factor: the nanoseconds are multiplied in
\* 64 bits and their whole seconds carried into the checked product of the
\* seconds.
dur_checked_mul(a, k) ==
    LET total == BigMul(BigFromNat(a.nanos), k)
        low   == SubSeq(total, 1, IF Len(total) < NanosDigits THEN Len(total)
                                  ELSE NanosDigits)
        extra == BigNorm(SubSeq(total, NanosDigits + 1, Len(total)))
        secs  == BigMul(a.secs, k)
        sum   == BigAdd(secs, extra)
    IN  IF FitsU64(secs) /\ FitsU64(sum) THEN Dur(sum, BigToNat(low))
        ELSE NoDur

(***************************************************************************)
(* ByteSpan, ParseErr and the results of a parse                           *)
(***************************************************************************)

\* ByteSpan::new
ByteSpan(start, len) == [start |-> start, len |-> len]

\* Option<ByteSpan>::None
NoSpan == [start |-> -1, len |-> -1]

\* ByteSpan::new_all: the span of the whole text.
new_all(s) == ByteSpan(0, ByteLen(s))

\* ByteSpan::shift_start_left
shift_start_left(span, bytes) ==
    ByteSpan(span.start - bytes, span.len + bytes)

\* ByteSpan::shift_start_right
shift_start_right(span, bytes) ==
    ByteSpan(span.start + bytes, span.len - bytes)

\* Whether byte offset b is a cluster boundary of s.
IsBoundary(s, b) == \E i \in 1..(Len(s) + 1) : Off(s, i) = b

\* The index of the cluster that starts at the boundary b.
IdxAt(s, b) == CHOOSE i \in 1..(Len(s) + 1) : Off(s, i) = b

\* Whether the slice of ByteSpan::get is in range and on boundaries.
SpanValid(span, s) ==
    /\ span.start >= 0
    /\ span.len >= 0
    /\ IsBoundary(s, span.start)
    /\ IsBoundary(s, span.start + span.len)

\* ByteSpan::get: the clusters of the slice src[start..start + len].
get(span, s) ==
    SubSeq(s, IdxAt(s, span.start), IdxAt(s, span.start + span.len) - 1)

\* The groups of the colon grammar (enum Group).
Group == {"Hours", "Minutes", "SecondsInt", "SecondsSub"}

\* enum Unit
Unit == {"Second", "Minute", "Hour"}

\* The kinds of core::num::IntErrorKind the parser can meet.
IntErrorKind == {"Empty", "InvalidDigit", "PosOverflow"}

\* An error kind (ErrKind, SwErrKind, UnitErrKind): its variant, the group,
\* unit, sign or cluster it carries, and the integer error it carries.
ErrKind(kind, arg, int) == [kind |-> kind, arg |-> arg, int |-> int]

NoErr == ErrKind("", "", "")

\* ParseErr::new: the span and the kind, stored as given.
ParseErr(span, kind) == [span |-> span, kind |-> kind]

\* Result<ReadDur, ParseErr>::Ok
Ok(dur, neg) ==
    [kind |-> "Ok", dur |-> dur, is_neg |-> neg, span |-> NoSpan,
     err |-> NoErr]

\* Result<ReadDur, ParseErr>::Err
Err(e) ==
    [kind |-> "Err", dur |-> NoDur, is_neg |-> FALSE, span |-> e.span,
     err |-> e.kind]

\* Option<Result<..>>::None
None ==
    [kind |-> "None", dur |-> NoDur, is_neg |-> FALSE, span |-> NoSpan,
     err |-> NoErr]

\* The call did not return: an arithmetic or slicing panic.
Panic ==
    [kind |-> "Panic", dur |-> NoDur, is_neg |-> FALSE, span |-> NoSpan,
     err |-> NoErr]

\* No value yet.
Pending ==
    [kind |-> "Pending", dur |-> NoDur, is_neg |-> FALSE, span |-> NoSpan,
     err |-> NoErr]

(***************************************************************************)
(* Integer and fraction parsing                                            *)
(***************************************************************************)

\* The digit loop of str::parse::<u64>, left to right: each step first
\* reads a digit (InvalidDigit when the cluster is none), then forms
\* acc * 10 + digit (PosOverflow past u64::MAX).  The value only grows, so
\* the loop overflows exactly when its longest run of leading digits does,
\* and it reaches a cluster that is no digit only when that run fits.
parse_u64_digits(cl) ==
    LET n   == IF \A i \in 1..Len(cl) : cl[i] \in Digits THEN Len(cl)
               ELSE (CHOOSE i \in 1..Len(cl) :
                        /\ cl[i] \notin Digits
                        /\ \A j \in 1..(i - 1) : cl[j] \in Digits) - 1
        val == BigOfDigits(SubSeq(cl, 1, n))
    IN  IF ~FitsU64(val)
        THEN [ok |-> FALSE, val |-> <<>>, err |-> "PosOverflow"]
        ELSE IF n < Len(cl)
             THEN [ok |-> FALSE, val |-> <<>>, err |-> "InvalidDigit"]
        ELSE [ok |-> TRUE, val |-> val, err |-> ""]

\* str::parse::<u64>: empty text is Empty, a lone sign is InvalidDigit, one
\* leading '+' is allowed and '-' is no digit.
parse_u64(cl) ==
    IF cl = <<>> THEN [ok |-> FALSE, val |-> <<>>, err |-> "Empty"]
    ELSE IF Len(cl) = 1 /\ Head(cl) \in {"+", "-"}
         THEN [ok |-> FALSE, val |-> <<>>, err |-> "InvalidDigit"]
    ELSE IF Head(cl) = "+" THEN parse_u64_digits(Tail(cl))
    ELSE parse_u64_digits(cl)

\* A numerator of 64 bits.
NumeratorMaxWide == U64Max

\* u32::MAX = 4294967295, the bound of the numerator of parse_frac.
U32Max ==
    BigOfDigits(<<"4", "2", "9", "4", "9", "6", "7", "2", "9", "5">>)

\* digit * 10^n
DigitTimesPow10(d, n) == BigNorm([i \in 1..(n + 1) |-> IF i = n + 1 THEN d ELSE 0])

\* Result of parse_frac: a numerator, or ParseFracErr::ParseDigit {idx,
\* len, err} or ParseFracErr::NumeratorOverflow {idx}.
FracOk(n) == [kind |-> "Ok", val |-> n, idx |-> 0, len |-> 0]

FracParseDigit(idx, len) ==
    [kind |-> "ParseDigit", val |-> <<>>, idx |-> idx, len |-> len]

FracNumeratorOverflow(idx) ==
    [kind |-> "NumeratorOverflow", val |-> <<>>, idx |-> idx, len |-> 0]

\* No value of parse_frac yet.
NoFrac == [kind |-> "None", val |-> <<>>, idx |-> 0, len |-> 0]

RECURSIVE parse_frac_loop(_, _, _, _, _)
\* Cluster by cluster, left to right: pos counts the clusters taken, idx
\* the bytes.  Clusters past the width are dropped.
parse_frac_loop(cl, places, pos, idx, num) ==
    IF cl = <<>> \/ pos >= places THEN FracOk(num)
    ELSE IF Head(cl) \notin Digits
         THEN FracParseDigit(idx, CLen(Head(cl)))
    ELSE LET sum == BigAdd(num, DigitTimesPow10(DigitVal(Head(cl)),
                                                places - pos - 1))
         IN  IF ~BigLeq(sum, U32Max) THEN FracNumeratorOverflow(idx)
             ELSE parse_frac_loop(Tail(cl), places, pos + 1,
                                  idx + CLen(Head(cl)), sum)

\* parse_frac(s, places): the fraction written by s as a numerator over
\* 10^places.
parse_frac(cl, places) == parse_frac_loop(cl, places, 0, 0, <<>>)

(***************************************************************************)
(* SwLexer: the tokens of the colon grammar, scanned in reverse            *)
(***************************************************************************)

\* enum SwTokenKind
SwTokenKind == {"Colon", "Dot", "Pos", "Neg", "Data"}

\* SwToken
SwToken(typ, span) == [typ |-> typ, span |-> span]

\* Option<SwToken>::None
NoToken == SwToken("None", NoSpan)

RECURSIVE advance(_, _)
\* SwLexer::advance on the reversed cluster iterator with k clusters left:
\* the index of the first cluster, going left, that is not whitespace; 0
\* when the iterator runs out.
advance(s, k) ==
    IF k = 0 THEN 0
    ELSE IF ~IsWs(s[k]) THEN k
    ELSE advance(s, k - 1)

\* A lexer without the colon token: ':' is data.
single_token_NoColon(c) ==
    CASE c = "." -> "Dot"
      [] c = "+" -> "Pos"
      [] c = "-" -> "Neg"
      [] OTHER   -> "None"

\* SwLexer::single_token
single_token(c) ==
    CASE c = ":" -> "Colon"
      [] c = "." -> "Dot"
      [] c = "+" -> "Pos"
      [] c = "-" -> "Neg"
      [] OTHER   -> "None"

\* A lexer that takes the whitespace it passes into the span at once.
data_run_Untrimmed(s, k, span) ==
    LET stop == IF \A i \in 1..k : single_token(s[i]) = "None" THEN 0
                ELSE CHOOSE i \in 1..k :
                        /\ single_token(s[i]) # "None"
                        /\ \A j \in (i + 1)..k : single_token(s[j]) = "None"
    IN  [tok     |-> SwToken("Data",
                             shift_start_left(span,
                                              span.start - Off(s, stop + 1))),
         content |-> stop]

\* A lexer whose Data token spans only the cluster it begins with, the
\* clusters it consumes after it left out.
data_run_OneCluster(s, k, span) ==
    LET stop == IF \A i \in 1..k : single_token(s[i]) = "None" THEN 0
                ELSE CHOOSE i \in 1..k :
                        /\ single_token(s[i]) # "None"
                        /\ \A j \in (i + 1)..k : single_token(s[j]) = "None"
    IN  [tok |-> SwToken("Data", span), content |-> stop]

\* A lexer whose Data token ends at the first whitespace it meets.
data_run_StopsAtWs(s, k, span) ==
    LET stop == IF \A i \in 1..k : single_token(s[i]) = "None" /\ ~IsWs(s[i])
                THEN 0
                ELSE CHOOSE i \in 1..k :
                        /\ single_token(s[i]) # "None" \/ IsWs(s[i])
                        /\ \A j \in (i + 1)..k :
                               single_token(s[j]) = "None" /\ ~IsWs(s[j])
    IN  [tok     |-> SwToken("Data",
                             shift_start_left(span,
                                              span.start - Off(s, stop + 1))),
         content |-> stop]

\* The while loop of SwLexer::next for a Data token begun at span, with k
\* clusters left.  The loop consumes clusters down to the nearest
\* single-cluster token (or the start of the text); bytes_ignored counts
\* whitespace until a later cluster that is none takes it into the span, so
\* the span ends where it did and starts at the leftmost consumed cluster
\* that is not whitespace.
data_run(s, k, span) ==
    LET stop == IF \A i \in 1..k : single_token(s[i]) = "None" THEN 0
                ELSE CHOOSE i \in 1..k :
                        /\ single_token(s[i]) # "None"
                        /\ \A j \in (i + 1)..k : single_token(s[j]) = "None"
        run  == {i \in (stop + 1)..k : ~IsWs(s[i])}
        m    == CHOOSE i \in run : \A j \in run : i <= j
    IN  [tok     |-> SwToken("Data",
                             IF run = {} THEN span
                             ELSE shift_start_left(span,
                                                   span.start - Off(s, m))),
         content |-> stop]

\* SwLexer::next with k clusters left: the token and the clusters left
\* after it.
SwLexer_next(s, k) ==
    LET j == advance(s, k)
    IN  IF j = 0 THEN [tok |-> NoToken, content |-> 0]
        ELSE LET span == ByteSpan(Off(s, j), CLen(s[j]))
                 typ  == single_token(s[j])
             IN  IF typ # "None"
                 THEN [tok |-> SwToken(typ, span), content |-> j - 1]
                 ELSE data_run(s, j - 1, span)

\* Peekable::peek on the lexer: the next token, not consumed.
SwLexer_peek(s, k) == SwLexer_next(s, k).tok

RECURSIVE SwLexer_collect(_, _)
\* All the tokens of s from k clusters left, in scan (reverse) order.
SwLexer_collect(s, k) ==
    LET n == SwLexer_next(s, k)
    IN  IF n.tok = NoToken THEN <<>>
        ELSE <<n.tok>> \o SwLexer_collect(s, n.content)

(***************************************************************************)
(* parse_as_sw: the colon grammar                                          *)
(***************************************************************************)

\* SEC_PER_MIN
SEC_PER_MIN == 60

\* MIN_PER_HOUR
MIN_PER_HOUR == 60

\* SEC_PER_HOUR
SEC_PER_HOUR == 3600

\* A width of the nanoseconds that is one digit short.
NanosCharsShort == 4 + 4

\* crate::MAX_NANOS_CHARS
MAX_NANOS_CHARS == 9

\* Groups::new: every group is the empty span at 0.
Groups_new == [g \in Group |-> ByteSpan(0, 0)]

\* The state of the scan loop before the first token.
ScanInit(s) ==
    [content |-> Len(s), cur |-> "SecondsSub", groups |-> Groups_new,
     is_neg |-> "none", neg_span |-> NoSpan, ret |-> Pending,
     tok |-> NoToken]

\* A scan that refuses every sign.
ScanSignRefused(s, st, n, neg) ==
    [st EXCEPT !.content = n.content, !.tok = n.tok,
               !.ret = Err(ParseErr(n.tok.span,
                   ErrKind("UnexpectedSign",
                           IF neg THEN "neg" ELSE "pos", "")))]

\* A scan that accepts a sign wherever it stands.
ScanSignAnywhere(s, st, n, neg) ==
    [st EXCEPT !.content = n.content, !.tok = n.tok,
               !.is_neg = IF neg THEN "neg" ELSE "pos",
               !.neg_span = IF neg THEN n.tok.span ELSE @]

\* A scan that accepts a sign as the first token it takes, the last of
\* the text, and refuses it anywhere else.
ScanSignTrailing(s, st, n, neg) ==
    IF n.content + 1 = advance(s, Len(s))
    THEN [st EXCEPT !.content = n.content, !.tok = n.tok,
                    !.is_neg = IF neg THEN "neg" ELSE "pos",
                    !.neg_span = IF neg THEN n.tok.span ELSE @]
    ELSE [st EXCEPT !.content = n.content, !.tok = n.tok,
                    !.ret = Err(ParseErr(n.tok.span,
                        ErrKind("UnexpectedSign",
                                IF neg THEN "neg" ELSE "pos", "")))]

\* A sign token: accepted when the lexer has no token left, otherwise
\* UnexpectedSign.
ScanSign(s, st, n, neg) ==
    IF SwLexer_peek(s, n.content) = NoToken
    THEN [st EXCEPT !.content = n.content, !.tok = n.tok,
                    !.is_neg = IF neg THEN "neg" ELSE "pos",
                    !.neg_span = IF neg THEN n.tok.span ELSE @]
    ELSE [st EXCEPT !.content = n.content, !.tok = n.tok,
                    !.ret = Err(ParseErr(n.tok.span,
                        ErrKind("UnexpectedSign",
                                IF neg THEN "neg" ELSE "pos", "")))]

\* A scan that takes a colon after the hours for one more of them.
ScanTokenAnyColons(s, st) ==
    LET n   == SwLexer_next(s, st.content)
        typ == n.tok.typ
        adv == [st EXCEPT !.content = n.content, !.tok = n.tok]
    IN  CASE st.cur = "SecondsSub" /\ typ = "Colon" ->
               [adv EXCEPT !.groups =
                               [@ EXCEPT !["SecondsInt"] = st.groups["SecondsSub"],
                                         !["SecondsSub"] = ByteSpan(0, 0)],
                           !.cur = "Minutes"]
          [] st.cur = "SecondsSub" /\ typ = "Dot" ->
               [adv EXCEPT !.cur = "SecondsInt"]
          [] st.cur = "SecondsSub" /\ typ = "Data" ->
               LET next_typ == SwLexer_peek(s, n.content).typ
                   c == IF next_typ \in {"None", "Pos", "Neg"}
                        THEN "SecondsInt" ELSE "SecondsSub"
               IN  [adv EXCEPT !.cur = c, !.groups[c] = n.tok.span]
          [] st.cur = "SecondsInt" /\ typ = "Colon" ->
               [adv EXCEPT !.cur = "Minutes"]
          [] st.cur = "Minutes" /\ typ = "Colon" ->
               [adv EXCEPT !.cur = "Hours"]
          [] st.cur = "Hours" /\ typ = "Colon" -> adv
          [] st.cur # "SecondsSub" /\ typ = "Data" ->
               [adv EXCEPT !.groups[st.cur] = n.tok.span]
          [] st.cur # "SecondsSub" /\ typ = "Dot" ->
               [adv EXCEPT !.ret = Err(ParseErr(n.tok.span,
                                   ErrKind("UnexpectedDot", st.cur, "")))]
          [] typ = "Pos" -> ScanSign(s, st, n, FALSE)
          [] typ = "Neg" -> ScanSign(s, st, n, TRUE)

\* A scan that takes a '.' wherever it stands.
ScanTokenAnyDots(s, st) ==
    LET n   == SwLexer_next(s, st.content)
        typ == n.tok.typ
        adv == [st EXCEPT !.content = n.content, !.tok = n.tok]
    IN  CASE st.cur = "SecondsSub" /\ typ = "Colon" ->
               [adv EXCEPT !.groups =
                               [@ EXCEPT !["SecondsInt"] = st.groups["SecondsSub"],
                                         !["SecondsSub"] = ByteSpan(0, 0)],
                           !.cur = "Minutes"]
          [] st.cur = "SecondsSub" /\ typ = "Dot" ->
               [adv EXCEPT !.cur = "SecondsInt"]
          [] st.cur = "SecondsSub" /\ typ = "Data" ->
               LET next_typ == SwLexer_peek(s, n.content).typ
                   c == IF next_typ \in {"None", "Pos", "Neg"}
                        THEN "SecondsInt" ELSE "SecondsSub"
               IN  [adv EXCEPT !.cur = c, !.groups[c] = n.tok.span]
          [] st.cur = "SecondsInt" /\ typ = "Colon" ->
               [adv EXCEPT !.cur = "Minutes"]
          [] st.cur = "Minutes" /\ typ = "Colon" ->
               [adv EXCEPT !.cur = "Hours"]
          [] st.cur = "Hours" /\ typ = "Colon" ->
               [adv EXCEPT !.ret = Err(ParseErr(n.tok.span,
                                   ErrKind("UnexpectedColon", "", "")))]
          [] st.cur # "SecondsSub" /\ typ = "Data" ->
               [adv EXCEPT !.groups[st.cur] = n.tok.span]
          [] st.cur # "SecondsSub" /\ typ = "Dot" -> adv
          [] typ = "Pos" -> ScanSign(s, st, n, FALSE)
          [] typ = "Neg" -> ScanSign(s, st, n, TRUE)

\* A scan that, on the first ':', copies the seconds to SecondsInt and
\* leaves them in SecondsSub as well.
ScanTokenKeepsSeconds(s, st) ==
    LET n   == SwLexer_next(s, st.content)
        typ == n.tok.typ
        adv == [st EXCEPT !.content = n.content, !.tok = n.tok]
    IN  CASE st.cur = "SecondsSub" /\ typ = "Colon" ->
               [adv EXCEPT !.groups =
                               [@ EXCEPT !["SecondsInt"] = st.groups["SecondsSub"]],
                           !.cur = "Minutes"]
          [] st.cur = "SecondsSub" /\ typ = "Dot" ->
               [adv EXCEPT !.cur = "SecondsInt"]
          [] st.cur = "SecondsSub" /\ typ = "Data" ->
               LET next_typ == SwLexer_peek(s, n.content).typ
                   c == IF next_typ \in {"None", "Pos", "Neg"}
                        THEN "SecondsInt" ELSE "SecondsSub"
               IN  [adv EXCEPT !.cur = c, !.groups[c] = n.tok.span]
          [] st.cur = "SecondsInt" /\ typ = "Colon" ->
               [adv EXCEPT !.cur = "Minutes"]
          [] st.cur = "Minutes" /\ typ = "Colon" ->
               [adv EXCEPT !.cur = "Hours"]
          [] st.cur = "Hours" /\ typ = "Colon" ->
               [adv EXCEPT !.ret = Err(ParseErr(n.tok.span,
                                   ErrKind("UnexpectedColon", "", "")))]
          [] st.cur # "SecondsSub" /\ typ = "Data" ->
               [adv EXCEPT !.groups[st.cur] = n.tok.span]
          [] st.cur # "SecondsSub" /\ typ = "Dot" ->
               [adv EXCEPT !.ret = Err(ParseErr(n.tok.span,
                                   ErrKind("UnexpectedDot", st.cur, "")))]
          [] typ = "Pos" -> ScanSign(s, st, n, FALSE)
          [] typ = "Neg" -> ScanSign(s, st, n, TRUE)

\* One turn of the while loop of parse_as_sw: take the next token n and
\* match on (cur, n.tok.typ).  ret becomes an Err when the loop returns.
ScanToken(s, st) ==
    LET n   == SwLexer_next(s, st.content)
        typ == n.tok.typ
        adv == [st EXCEPT !.content = n.content, !.tok = n.tok]
    IN  CASE st.cur = "SecondsSub" /\ typ = "Colon" ->
               [adv EXCEPT !.groups =
                               [@ EXCEPT !["SecondsInt"] = st.groups["SecondsSub"],
                                         !["SecondsSub"] = ByteSpan(0, 0)],
                           !.cur = "Minutes"]
          [] st.cur = "SecondsSub" /\ typ = "Dot" ->
               [adv EXCEPT !.cur = "SecondsInt"]
          [] st.cur = "SecondsSub" /\ typ = "Data" ->
               LET next_typ == SwLexer_peek(s, n.content).typ
                   c == IF next_typ \in {"None", "Pos", "Neg"}
                        THEN "SecondsInt" ELSE "SecondsSub"
               IN  [adv EXCEPT !.cur = c, !.groups[c] = n.tok.span]
          [] st.cur = "SecondsInt" /\ typ = "Colon" ->
               [adv EXCEPT !.cur = "Minutes"]
          [] st.cur = "Minutes" /\ typ = "Colon" ->
               [adv EXCEPT !.cur = "Hours"]
          [] st.cur = "Hours" /\ typ = "Colon" ->
               [adv EXCEPT !.ret = Err(ParseErr(n.tok.span,
                                   ErrKind("UnexpectedColon", "", "")))]
          [] st.cur # "SecondsSub" /\ typ = "Data" ->
               [adv EXCEPT !.groups[st.cur] = n.tok.span]
          [] st.cur # "SecondsSub" /\ typ = "Dot" ->
               [adv EXCEPT !.ret = Err(ParseErr(n.tok.span,
                                   ErrKind("UnexpectedDot", st.cur, "")))]
          [] typ = "Pos" -> ScanSign(s, st, n, FALSE)
          [] typ = "Neg" -> ScanSign(s, st, n, TRUE)

\* Whether the while loop goes on: no error yet and a token is left.
ScanMore(s, st) ==
    st.ret = Pending /\ SwLexer_peek(s, st.content) # NoToken

RECURSIVE ScanAll(_, _)
\* The whole while loop.
ScanAll(s, st) == IF ScanMore(s, st) THEN ScanAll(s, ScanToken(s, st)) ELSE st

\* Whole groups whose minutes count as seconds.
WholeGroupsMinutesAsSeconds ==
    <<<<"Hours", SEC_PER_HOUR>>, <<"Minutes", 1>>, <<"SecondsInt", 1>>>>

\* The (group, sec_per_unit) pairs of the loop over the whole groups.
WholeGroups ==
    <<<<"Hours", SEC_PER_HOUR>>, <<"Minutes", SEC_PER_MIN>>,
      <<"SecondsInt", 1>>>>

RECURSIVE SwWhole(_, _, _, _)
\* The for loop over hours, minutes and whole seconds, from entry i of
\* WholeGroups with the duration dur so far: the duration after the loop
\* as an Ok, or the Err that returns from it.
SwWhole(s, grp, i, dur) ==
    IF i > Len(WholeGroups) THEN Ok(dur, FALSE)
    ELSE LET group    == WholeGroups[i][1]
             per_unit == WholeGroups[i][2]
             span     == grp[group]
             to_parse == trim(get(span, s))
             units    == parse_u64(to_parse)
             secs     == BigMul(units.val, per_unit)
             sum      == dur_checked_add(dur, from_secs(secs))
             overflow == Err(ParseErr(span,
                             ErrKind("DurationOverflow", group, "")))
         IN  IF to_parse = <<>> THEN SwWhole(s, grp, i + 1, dur)
             ELSE IF ~units.ok
                  THEN Err(ParseErr(span, ErrKind("Int", group, units.err)))
             ELSE IF ~FitsU64(secs) THEN overflow
             ELSE IF sum = NoDur THEN overflow
             ELSE SwWhole(s, grp, i + 1, sum)

\* Group::max of SecondsSub: the nanoseconds of one second.
SecondsSubMax == BigFromNat(NanosPerSec)

\* The subseconds block of parse_as_sw, with the duration dur of the whole
\* groups.
SwSubseconds(s, grp, dur, neg) ==
    LET group    == "SecondsSub"
        span     == grp[group]
        to_parse == get(span, s)
        frac     == parse_frac(to_parse, MAX_NANOS_CHARS)
        sum      == dur_checked_add(dur, Dur(<<>>, BigToNat(frac.val)))
    IN  IF trim(to_parse) = <<>> THEN Ok(dur, neg)
        ELSE IF frac.kind = "ParseDigit"
             THEN Err(ParseErr(
                      ByteSpan(shift_start_right(span, frac.idx).start,
                               frac.len),
                      ErrKind("Int", group, "InvalidDigit")))
        ELSE IF frac.kind = "NumeratorOverflow" THEN Panic
        ELSE IF ~BigLess(frac.val, SecondsSubMax) THEN Panic
        ELSE IF sum = NoDur
             THEN Err(ParseErr(span, ErrKind("DurationOverflow", group, "")))
        ELSE Ok(sum, neg)

\* A parse_as_sw that reads the fields before it refuses a negative.
SwFinishNegativeLast(s, allow, st) ==
    IF st.ret # Pending THEN st.ret
    ELSE LET whole == SwWhole(s, st.groups, 1, DurZero)
             all   == IF whole.kind # "Ok" THEN whole
                      ELSE SwSubseconds(s, st.groups, whole.dur,
                                        st.is_neg = "neg")
         IN  IF all.kind # "Ok" THEN all
             ELSE IF ~allow /\ st.is_neg = "neg"
                  THEN Err(ParseErr(st.neg_span, ErrKind("Negative", "", "")))
             ELSE all

\* parse_as_sw after the while loop, st being the state the loop ended in.
SwFinish(s, allow, st) ==
    IF st.ret # Pending THEN st.ret
    ELSE IF ~allow /\ st.is_neg = "neg"
         THEN Err(ParseErr(st.neg_span, ErrKind("Negative", "", "")))
    ELSE LET whole == SwWhole(s, st.groups, 1, DurZero)
         IN  IF whole.kind # "Ok" THEN whole
             ELSE SwSubseconds(s, st.groups, whole.dur, st.is_neg = "neg")

\* ReadDur::parse_as_sw
parse_as_sw(s, allow) == SwFinish(s, allow, ScanAll(s, ScanInit(s)))

(***************************************************************************)
(* parse_as_unit: the unit-suffix grammar                                  *)
(***************************************************************************)

RECURSIVE LeadingWs(_)
\* Bytes of whitespace at the start of a text.
LeadingWs(cl) ==
    IF cl # <<>> /\ IsWs(Head(cl)) THEN CLen(Head(cl)) + LeadingWs(Tail(cl))
    ELSE 0

\* ByteSpan::trim_whitespace: the span shrunk from both edges past the
\* whitespace clusters; a span of whitespace only ends empty at its end.
trim_whitespace(span, s) ==
    LET cl    == get(span, s)
        front == LeadingWs(cl)
        back  == IF front = span.len THEN 0 ELSE LeadingWs(Rev(cl))
    IN  ByteSpan(span.start + front, span.len - front - back)

\* A unit parser that takes every cluster for seconds.
from_grapheme_AnySecond(c) == "Second"

\* Unit::from_grapheme: the unit, or "" for an unknown cluster.
from_grapheme(c) ==
    CASE c = "s" -> "Second"
      [] c = "m" -> "Minute"
      [] c = "h" -> "Hour"
      [] OTHER   -> ""

\* The factor of checked_mul for a unit.
UnitSecs(unit) ==
    CASE unit = "Second" -> 1
      [] unit = "Minute" -> SEC_PER_MIN
      [] unit = "Hour"   -> SEC_PER_HOUR

\* Index of the first "." cluster of s, 0 when there is none
\* (graphs.find).
FindDot(s) ==
    IF \E i \in 1..Len(s) : s[i] = "."
    THEN CHOOSE i \in 1..Len(s) :
             s[i] = "." /\ \A j \in 1..(i - 1) : s[j] # "."
    ELSE 0

\* The number part of parse_as_unit: s is the text without trailing
\* whitespace, unit the unit found at byte dur_len, dur_span the trimmed,
\* non-empty span before the unit.  chk tells whether the build panics
\* on integer overflow (overflow-checks); without them the subtraction
\* wraps and the slice of the wrapped span panics, as does the slice of a
\* span that ends inside a cluster.
UnitNumber(s, unit, dur_span, chk) ==
    LET sign     == s[1]
        is_sign  == sign \in {"+", "-"}
        neg      == sign = "-"
        num_span == IF is_sign THEN shift_start_right(dur_span, CLen(sign))
                    ELSE dur_span
        dot      == FindDot(s)
        dot_idx  == Off(s, dot)
        sub_start == dot_idx + 1
        sub_len  == dur_span.len - sub_start
        int_raw  == IF dot = 0 THEN num_span
                    ELSE ByteSpan(num_span.start, dot_idx - num_span.start)
        int_span == trim_whitespace(int_raw, s)
        int_str  == get(int_span, s)
        ints     == IF int_str = <<>> THEN [ok |-> TRUE, val |-> <<>>, err |-> ""]
                    ELSE parse_u64(int_str)
        sub_span == trim_whitespace(ByteSpan(sub_start, sub_len), s)
        frac     == IF dot = 0 THEN FracOk(<<>>)
                    ELSE parse_frac(get(sub_span, s), MAX_NANOS_CHARS)
        dur      == dur_checked_mul(Dur(ints.val, BigToNat(frac.val)),
                                    UnitSecs(unit))
    IN  IF dot # 0 /\ sub_len < 0 /\ chk THEN Panic
        ELSE IF ~ints.ok
             THEN Err(ParseErr(int_span, ErrKind("ParseInt", unit, ints.err)))
        ELSE IF dot # 0 /\ ~SpanValid(ByteSpan(sub_start, sub_len), s)
             THEN Panic
        ELSE IF frac.kind = "ExcessDigits"
             THEN Err(ParseErr(shift_start_right(sub_span, frac.idx),
                               ErrKind("FractionalTooLong", unit, "")))
        ELSE IF frac.kind = "ParseDigit"
             THEN Err(ParseErr(ByteSpan(sub_span.start + frac.idx, frac.len),
                               ErrKind("ParseInt", unit, "InvalidDigit")))
        ELSE IF frac.kind = "NumeratorOverflow"
             THEN Err(ParseErr(sub_span, ErrKind("DurOverflow", unit, "")))
        ELSE IF dur = NoDur
             THEN Err(ParseErr(num_span, ErrKind("DurOverflow", unit, "")))
        ELSE Ok(dur, neg)

\* ReadDur::parse_as_unit
parse_as_unit(s0, chk) ==
    LET s        == trim_end(s0)
        n        == Len(s)
        try_unit == s[n]
        unit_idx == Off(s, n)
        unit     == from_grapheme(try_unit)
        dur_span == trim_whitespace(ByteSpan(0, unit_idx), s)
    IN  IF s = <<>>
        THEN Err(ParseErr(new_all(s), ErrKind("UnitMissing", "", "")))
        ELSE IF unit = ""
             THEN Err(ParseErr(ByteSpan(unit_idx, CLen(try_unit)),
                               ErrKind("UnitUnknown", try_unit, "")))
        ELSE IF get(dur_span, s) = <<>>
             THEN Err(ParseErr(dur_span, ErrKind("DurMissing", unit, "")))
        ELSE UnitNumber(s, unit, dur_span, chk)

(***************************************************************************)
(* The dispatcher                                                          *)
(***************************************************************************)

\* s.as_bytes().contains(&b':')
ContainsColon(s) == \E i \in 1..Len(s) : s[i] = ":"

\* A dispatcher that never looks for the ':': every text goes to the unit
\* grammar.
GrammarUnitOnly(s) == "unit"

\* The grammar ReadDur::parse chooses: the colon grammar when the text
\* holds a ':' byte, the unit grammar otherwise.
Grammar(s) == IF ContainsColon(s) THEN "sw" ELSE "unit"

\* The branches of ReadDur::parse.
parse_dispatch(s, allow, chk) ==
    IF Grammar(s) = "sw" THEN parse_as_sw(s, allow)
    ELSE parse_as_unit(s, chk)

\* ReadDur::parse(s, allow_neg) as its callers use it: None for the empty
\* text, the chosen grammar's result otherwise.
parse(s, allow, chk) ==
    IF s = <<>> THEN None ELSE parse_dispatch(s, allow, chk)

\* The results of parse_as_unit over the builds: with and without
\* overflow checks.
UnitResults(s) == {parse_as_unit(s, chk) : chk \in BOOLEAN}

\* The results of ReadDur::parse over the builds.
ParseResults(s, allow) == {parse(s, allow, chk) : chk \in BOOLEAN}

(***************************************************************************)
(* DurationFmt: the text of a duration                                     *)
(***************************************************************************)

\* DurationFmt::new
DurationFmt(dur, prec, visual_cues) ==
    [dur |-> dur, prec |-> prec, visual_cues |-> visual_cues]

\* 10_u32.pow(n) for n in 0..9
U32Pow10(n) ==
    <<1, 10, 100, 1000, 10000, 100000, 1000000, 10000000, 100000000,
      1000000000>>[n + 1]

\* The decimal text of a u64, as {} writes it.
U64Text(a) ==
    IF a = <<>> THEN <<"0">>
    ELSE [i \in 1..Len(a) |-> DigitChr(a[Len(a) + 1 - i])]

\* {:0pad_zero$} with pad_zero = 2: zeros in front up to two digits.
PadZero2(a) == IF Len(a) < 2 THEN <<"0">> \o U64Text(a) ELSE U64Text(a)

\* Subseconds written without the zeros in front.
subsecs_NoPad(fmt) ==
    IF fmt.prec # 0
    THEN <<".">> \o U64Text(BigFromNat(fmt.dur.nanos
                                \div U32Pow10(MAX_NANOS_CHARS - fmt.prec)))
    ELSE <<>>

\* fn subsecs: nothing at precision 0, otherwise '.' and the first prec
\* digits of the nanoseconds, zeros in front kept ({:0>width$}).
subsecs(fmt) ==
    IF fmt.prec # 0
    THEN LET v == fmt.dur.nanos \div U32Pow10(MAX_NANOS_CHARS - fmt.prec)
         IN  <<".">> \o [i \in 1..fmt.prec |->
                            DigitChr((v \div U32Pow10(fmt.prec - i)) % 10)]
    ELSE <<>>

\* fn plural
plural(len) == IF len = <<1>> THEN <<>> ELSE <<"s">>

\* impl fmt::Display for DurationFmt
Display(fmt) ==
    LET total_secs == fmt.dur.secs
        total_mins == BigDivMod(total_secs, SEC_PER_MIN).quot
        secs       == BigFromNat(BigDivMod(total_secs, SEC_PER_MIN).rem)
        mins       == BigFromNat(BigDivMod(total_mins, MIN_PER_HOUR).rem)
        hours      == BigDivMod(total_mins, MIN_PER_HOUR).quot
    IN  IF fmt.visual_cues
        THEN PadZero2(hours) \o <<":">> \o PadZero2(mins) \o <<":">>
             \o PadZero2(secs) \o subsecs(fmt)
        ELSE (IF hours # <<>>
              THEN U64Text(hours) \o <<" ", "h", "o", "u", "r">>
                   \o plural(hours) \o <<",", " ">>
              ELSE <<>>)
             \o (IF mins # <<>>
                 THEN U64Text(mins) \o <<" ", "m", "i", "n", "u", "t", "e">>
                      \o plural(mins) \o <<",", " ">>
                 ELSE <<>>)
             \o U64Text(secs) \o subsecs(fmt)
             \o <<" ", "s", "e", "c", "o", "n", "d">>
             \o (IF fmt.prec = 0 THEN plural(secs) ELSE <<"s">>)

(***************************************************************************)
(* Stopwatch: the time between starts and stops                            *)
(***************************************************************************)

\* Duration::MAX
DurMax == Dur(U64Max, NanosPerSec - 1)

\* a < b on durations.
dur_less(a, b) ==
    BigLess(a.secs, b.secs) \/ (a.secs = b.secs /\ a.nanos < b.nanos)

\* Duration::saturating_add
saturating_add(a, b) ==
    LET sum == dur_checked_add(a, b)
    IN  IF sum = NoDur THEN DurMax ELSE sum

\* Duration::saturating_sub
saturating_sub(a, b) ==
    IF dur_less(a, b) THEN DurZero
    ELSE IF a.nanos >= b.nanos
         THEN Dur(BigSub(a.secs, b.secs), a.nanos - b.nanos)
    ELSE Dur(BigSub(BigSub(a.secs, b.secs), BigFromNat(1)),
             a.nanos + NanosPerSec - b.nanos)

\* Option<Instant>: an instant is a reading of the monotonic clock, in
\* whole seconds.
NoInstant == [some |-> FALSE, at |-> 0]

SomeInstant(t) == [some |-> TRUE, at |-> t]

\* Instant::saturating_duration_since
saturating_duration_since(now, earlier) ==
    from_secs(BigFromNat(IF now >= earlier THEN now - earlier ELSE 0))

\* struct Stopwatch
Stopwatch(elapsed, start) == [elapsed |-> elapsed, start |-> start]

\* Stopwatch::new at the instant now.
Stopwatch_new(elapsed, running, now) ==
    Stopwatch(elapsed, IF running THEN SomeInstant(now) ELSE NoInstant)

\* Stopwatch::default
Stopwatch_default == Stopwatch(DurZero, NoInstant)

\* Stopwatch::is_running
is_running(w) == w.start.some

\* Stopwatch::add
Stopwatch_add(w, add) ==
    [w EXCEPT !.elapsed = saturating_add(@, add)]

\* A result of start or stop: the stopwatch after the call and Ok or the
\* Error.
SwRet(w, ret) == [sw |-> w, ret |-> ret]

\* A start that does not look whether the stopwatch runs.
Stopwatch_start_Unguarded(w, now) ==
    SwRet([w EXCEPT !.start = SomeInstant(now)], "Ok")

\* Stopwatch::start at the instant now.
Stopwatch_start(w, now) ==
    IF is_running(w) THEN SwRet(w, "AlreadyStarted")
    ELSE SwRet([w EXCEPT !.start = SomeInstant(now)], "Ok")

\* Stopwatch::stop at the instant now.
Stopwatch_stop(w, now) ==
    IF w.start.some
    THEN SwRet([Stopwatch_add(w, saturating_duration_since(now, w.start.at))
                   EXCEPT !.start = NoInstant], "Ok")
    ELSE SwRet(w, "AlreadyStopped")

\* Stopwatch::toggle at the instant now.
Stopwatch_toggle(w, now) ==
    IF is_running(w) THEN Stopwatch_stop(w, now).sw
    ELSE Stopwatch_start(w, now).sw

\* Stopwatch::reset
Stopwatch_reset(w) == Stopwatch(DurZero, NoInstant)

\* A set that lets a running stopwatch run on.
Stopwatch_set_KeepsStart(w, new) == Stopwatch(new, w.start)

\* Stopwatch::set
Stopwatch_set(w, new) == Stopwatch(new, NoInstant)

\* A sync that starts the run anew and drops the time run so far.
sync_elapsed_Restart(w, now) ==
    IF w.start.some THEN [w EXCEPT !.start = SomeInstant(now)] ELSE w

\* Stopwatch::sync_elapsed at the instant now.
sync_elapsed(w, now) ==
    IF w.start.some
    THEN [Stopwatch_add(w, saturating_duration_since(now, w.start.at))
             EXCEPT !.start = SomeInstant(now)]
    ELSE w

\* A sub that does not count the time run so far.
Stopwatch_sub_Unsynced(w, sub, now) ==
    [w EXCEPT !.elapsed = saturating_sub(@, sub)]

\* Stopwatch::sub at the instant now.
Stopwatch_sub(w, sub, now) ==
    [sync_elapsed(w, now) EXCEPT !.elapsed = saturating_sub(@, sub)]

\* Stopwatch::elapsed at the instant now.
Stopwatch_elapsed(w, now) ==
    IF w.start.some
    THEN saturating_add(w.elapsed,
                        saturating_duration_since(now, w.start.at))
    ELSE w.elapsed

(***************************************************************************)
(* The inputs of a call                                                    *)
(***************************************************************************)

\* Longest text of the exhaustive part of the inputs, in clusters.
MaxLen == 4

\* The clusters of the exhaustive part: digits, the four single-cluster
\* tokens, whitespace, and "s", a unit that is also data that is no digit.
Alpha == {"0", "3", ":", ".", "-", "+", " ", "s"}

\* Every text over Alpha of at most MaxLen clusters.
ShortInputs == UNION {[1..n -> Alpha] : n \in 0..MaxLen}

\* u64::MAX and u64::MAX + 1 as typed.
U64MaxText ==
    <<"1", "8", "4", "4", "6", "7", "4", "4", "0", "7", "3", "7", "0", "9",
      "5", "5", "1", "6", "1", "5">>

U64OverText ==
    <<"1", "8", "4", "4", "6", "7", "4", "4", "0", "7", "3", "7", "0", "9",
      "5", "5", "1", "6", "1", "6">>

\* u64::MAX / 3600 as typed: the most hours whose seconds fit 64 bits,
\* 15 seconds short of u64::MAX.
HoursTopText ==
    <<"5", "1", "2", "4", "0", "9", "5", "5", "7", "6", "0", "3", "0", "4",
      "3", "1">>

\* Fields of the colon form: empty, small, 60 and more, and the edge of
\* 64 bits.
SwFields ==
    {<<>>, <<"0">>, <<"3">>, <<"9", "9">>, HoursTopText, U64MaxText,
     U64OverText}

\* The small fields among them.
SmallFields == {<<>>, <<"0">>, <<"3">>}

Signs == {<<>>, <<"-">>}

\* The ways a fraction is written after the seconds.
Fractions ==
    {<<>>, <<".">>, <<".", "5">>,
     <<".", "1", "2", "3", "4", "5", "6", "7", "8", "9">>,
     <<".", "1", "2", "3", "4", "5", "6", "7", "8", "9", "9">>,
     <<".", "0", "0", "0", "0", "0", "0", "0", "0", "0", "9">>,
     <<".", "5", Plant, "3">>}

\* Texts of the colon form with one, two or three fields.
SwInputs ==
    {sg \o sec \o fr : sg \in Signs, sec \in SwFields, fr \in Fractions}
    \cup {sg \o m \o <<":">> \o sec \o fr :
             sg \in Signs, m \in SwFields, sec \in SwFields,
             fr \in Fractions}
    \cup {sg \o h \o <<":">> \o m \o <<":">> \o sec :
             sg \in Signs, h \in SwFields, m \in SwFields, sec \in SwFields}
    \cup {sg \o h \o <<":">> \o m \o <<":">> \o sec \o fr :
             sg \in Signs, h \in SmallFields, m \in SmallFields,
             sec \in SmallFields, fr \in Fractions}

\* Texts of the unit form: whitespace, sign, integer, fraction, whitespace
\* and a unit or another last cluster.
UnitInputs ==
    {ws \o sg \o int \o fr \o ws2 \o <<u>> :
        ws \in {<<>>, <<" ">>}, sg \in Signs,
        int \in {<<>>, <<"3">>, U64MaxText, U64OverText},
        fr \in Fractions,
        ws2 \in {<<>>, <<" ">>},
        u \in {"s", "m", "h", Plant}}

\* The text of the lexer's whitespace test: " 1:2    45  6 : 4 ".
LexerTestText ==
    <<" ", "1", ":", "2", " ", " ", " ", " ", "4", "5", " ", " ", "6", " ",
      ":", " ", "4", " ">>

Inputs == ShortInputs \cup SwInputs \cup UnitInputs \cup {LexerTestText}

\* Largest width handed to parse_frac: the callers hand it 9, the tests
\* widths from 1 to the ten digits of u32::MAX + 1.
MaxPlaces == 10

\* Longest text of the exhaustive part of the fraction texts, in clusters.
MaxFracLen == 3

\* Fraction texts: every short text of digits and the emoji, and the long
\* ones of the tests and of the edge of 32 bits.
FracInputs ==
    UNION {[1..n -> {"0", "2", "3", "9", Plant}] : n \in 0..MaxFracLen}
    \cup {Tail(f) : f \in Fractions \ {<<>>}}
    \cup {<<"2", "4", Plant, "2", "1">>,
          <<"4", "2", "9", "4", "9", "6", "7", "2", "9", "6">>,
          <<"4", "2", "9", "4", "9", "6", "7", "2", "9", "5">>}

(***************************************************************************)
(* Calls of the parser                                                     *)
(***************************************************************************)

Entries ==
    {"parse", "parse_as_sw", "parse_as_unit", "parse_frac", "DurationFmt"}

\* DurationFmt of no formatting.
NoFmt == DurationFmt(NoDur, 0, FALSE)

\* Durations to format: seconds around the minute, the hour, a day, a
\* hundred hours and the largest duration, nanoseconds at both ends and
\* with zeros in front and behind.
FmtDurs ==
    {Dur(BigFromNat(secs), nanos) :
        secs \in {0, 5, 59, 60, 61, 3599, 3600, 3661, 86400, 360000},
        nanos \in {0, 5, 100000000, 123456789, 999999990, 999999999}}
    \cup {Dur(U64Max, nanos) : nanos \in {0, 5, 999999999}}

\* Most of the clock's ticks in a run.
MaxClock == 2

\* Most of the calls or commands in a run.
MaxSteps == 3

\* The record of a call on a stopwatch w at the instant now.
Op(name, arg, ret, w, now) ==
    [name |-> name, arg |-> arg, ret |-> ret, old |-> w, at |-> now]

\* No call yet.
NoOp == Op("none", DurZero, "", Stopwatch_default, 0)

\* No stopwatch is called directly.
WatchIdle ==
    /\ clock = 0
    /\ steps = 0
    /\ watch = Stopwatch_default
    /\ op = NoOp

\* No State and no command.
NoState == [sw |-> Stopwatch_default, since_stop |-> Stopwatch_default,
            prec |-> 0]

NoCmd ==
    [name |-> "none", arg |-> <<>>, msg |-> <<>>, alive |-> TRUE,
     old |-> NoState, at |-> 0]

\* There is no command loop.
StateIdle ==
    /\ state = NoState
    /\ cmd = NoCmd

Init ==
    /\ entry \in Entries
    /\ input \in (CASE entry = "parse_frac" -> FracInputs
                    [] entry = "DurationFmt" -> {<<>>}
                    [] OTHER -> Inputs)
    /\ allow_neg \in (IF entry \in {"parse", "parse_as_sw", "DurationFmt"}
                      THEN BOOLEAN ELSE {TRUE})
    /\ frac_places \in (IF entry = "parse_frac" THEN 1..MaxPlaces
                        ELSE {MAX_NANOS_CHARS})
    /\ frac_ret = NoFrac
    /\ dfmt \in (IF entry = "DurationFmt"
                 THEN {DurationFmt(dur, prec, cues) :
                          dur \in FmtDurs, prec \in 0..MAX_NANOS_CHARS,
                          cues \in BOOLEAN}
                 ELSE {NoFmt})
    /\ pc = "call"
    /\ content = 0
    /\ cur = "SecondsSub"
    /\ groups = Groups_new
    /\ is_neg = "none"
    /\ neg_span = NoSpan
    /\ scanned = <<>>
    /\ result = Pending
    /\ WatchIdle
    /\ StateIdle

ScanVars == <<content, cur, groups, is_neg, neg_span, scanned>>

\* The state of the scan loop held in the variables.
ScanState ==
    [content |-> content, cur |-> cur, groups |-> groups, is_neg |-> is_neg,
     neg_span |-> neg_span, ret |-> result, tok |-> NoToken]

\* parse_as_sw is entered: the lexer is built over the whole text.
StartScan ==
    /\ pc' = "scan"
    /\ content' = Len(input)
    /\ UNCHANGED <<AppVars, input, allow_neg, entry, frac_places, frac_ret,
                   dfmt, cur, groups, is_neg, neg_span, scanned, result>>

\* ReadDur::parse on the empty text.
ParseEmpty ==
    /\ pc = "call" /\ entry = "parse"
    /\ input = <<>>
    /\ result' = None
    /\ pc' = "done"
    /\ UNCHANGED <<AppVars, input, allow_neg, entry, frac_places, frac_ret,
                   dfmt, ScanVars>>

\* ReadDur::parse chooses the colon grammar.
ParseToSw ==
    /\ pc = "call" /\ entry = "parse"
    /\ input # <<>>
    /\ Grammar(input) = "sw"
    /\ StartScan

\* ReadDur::parse chooses the unit grammar, which runs to its end.
ParseToUnit ==
    /\ pc = "call" /\ entry = "parse"
    /\ input # <<>>
    /\ Grammar(input) = "unit"
    /\ result' \in UnitResults(input)
    /\ pc' = "done"
    /\ UNCHANGED <<AppVars, input, allow_neg, entry, frac_places, frac_ret,
                   dfmt, ScanVars>>

\* A direct call of parse_as_sw.
CallSw ==
    /\ pc = "call" /\ entry = "parse_as_sw"
    /\ StartScan

\* A direct call of parse_as_unit.
CallUnit ==
    /\ pc = "call" /\ entry = "parse_as_unit"
    /\ result' \in UnitResults(input)
    /\ pc' = "done"
    /\ UNCHANGED <<AppVars, input, allow_neg, entry, frac_places, frac_ret,
                   dfmt, ScanVars>>

\* A direct call of parse_frac.
CallFrac ==
    /\ pc = "call" /\ entry = "parse_frac"
    /\ frac_ret' = parse_frac(input, frac_places)
    /\ pc' = "done"
    /\ UNCHANGED <<AppVars, input, allow_neg, entry, frac_places, dfmt,
                   ScanVars, result>>

\* A duration is written as text, and the text handed to parse_as_sw.
Format ==
    /\ pc = "call" /\ entry = "DurationFmt"
    /\ input' = Display(dfmt)
    /\ entry' = "parse_as_sw"
    /\ UNCHANGED <<AppVars, allow_neg, frac_places, frac_ret, dfmt, pc,
                   ScanVars, result>>

\* One turn of the while loop of parse_as_sw.
Scan ==
    /\ pc = "scan"
    /\ ScanMore(input, ScanState)
    /\ \E st \in {ScanToken(input, ScanState)} :
           /\ content' = st.content
           /\ cur' = st.cur
           /\ groups' = st.groups
           /\ is_neg' = st.is_neg
           /\ neg_span' = st.neg_span
           /\ result' = st.ret
           /\ scanned' = Append(scanned, st.tok)
    /\ UNCHANGED <<AppVars, input, allow_neg, entry, frac_places, frac_ret,
                   dfmt, pc>>

\* The while loop of parse_as_sw has ended: the rest of the function.
SwReturn ==
    /\ pc = "scan"
    /\ ~ScanMore(input, ScanState)
    /\ result' = SwFinish(input, allow_neg, ScanState)
    /\ pc' = "done"
    /\ UNCHANGED <<AppVars, input, allow_neg, entry, frac_places, frac_ret,
                   dfmt, ScanVars>>

Next ==
    \/ ParseEmpty
    \/ ParseToSw
    \/ ParseToUnit
    \/ CallSw
    \/ CallUnit
    \/ CallFrac
    \/ Format
    \/ Scan
    \/ SwReturn

Spec == Init /\ [][Next]_vars

(***************************************************************************)
(* Calls of a Stopwatch                                                    *)
(***************************************************************************)

\* No call of the parser.
ParserIdle ==
    /\ entry = "none"
    /\ input = <<>>
    /\ allow_neg = FALSE
    /\ frac_places = MAX_NANOS_CHARS
    /\ frac_ret = NoFrac
    /\ dfmt = NoFmt
    /\ pc = "idle"
    /\ content = 0
    /\ cur = "SecondsSub"
    /\ groups = Groups_new
    /\ is_neg = "none"
    /\ neg_span = NoSpan
    /\ scanned = <<>>
    /\ result = Pending

\* The durations handed to new, set, add and sub: a second and parts of
\* one, and the two largest whole and fractional values.
WatchDurs ==
    {Dur(<<>>, 500000000), from_secs(BigFromNat(1)),
     Dur(BigFromNat(2), 750000000), from_secs(U64Max), DurMax}

\* A stopwatch is made by Stopwatch::default or Stopwatch::new at the
\* first instant.
StopwatchInit ==
    /\ ParserIdle
    /\ StateIdle
    /\ clock = 0
    /\ steps = 0
    /\ watch \in {Stopwatch_default}
                 \cup {Stopwatch_new(d, r, 0) :
                          d \in {DurZero} \cup WatchDurs, r \in BOOLEAN}
    /\ op = NoOp

\* Time passes between two calls.
Tick ==
    /\ clock < MaxClock
    /\ clock' = clock + 1
    /\ UNCHANGED <<ParserVars, steps, watch, op, state, cmd>>

\* A call has changed watch to w and returned ret.
Called(name, arg, ret, w) ==
    /\ steps < MaxSteps
    /\ steps' = steps + 1
    /\ watch' = w
    /\ op' = Op(name, arg, ret, watch, clock)
    /\ UNCHANGED <<ParserVars, clock, state, cmd>>

CallStart ==
    \E r \in {Stopwatch_start(watch, clock)} :
        Called("start", DurZero, r.ret, r.sw)

CallStop ==
    \E r \in {Stopwatch_stop(watch, clock)} :
        Called("stop", DurZero, r.ret, r.sw)

CallToggle == Called("toggle", DurZero, "", Stopwatch_toggle(watch, clock))

CallReset == Called("reset", DurZero, "", Stopwatch_reset(watch))

CallSet ==
    \E d \in {DurZero} \cup WatchDurs :
        Called("set", d, "", Stopwatch_set(watch, d))

CallAdd ==
    \E d \in {DurZero} \cup WatchDurs :
        Called("add", d, "", Stopwatch_add(watch, d))

CallSub ==
    \E d \in {DurZero} \cup WatchDurs :
        Called("sub", d, "", Stopwatch_sub(watch, d, clock))

StopwatchNext ==
    \/ Tick
    \/ CallStart
    \/ CallStop
    \/ CallToggle
    \/ CallReset
    \/ CallSet
    \/ CallAdd
    \/ CallSub

StopwatchSpec == StopwatchInit /\ [][StopwatchNext]_vars

(***************************************************************************)
(* The command loop: State::update                                         *)
(***************************************************************************)

\* State::DEFAULT_PRECISION
DEFAULT_PRECISION == 2

\* State::MAX_PRECISION
MAX_PRECISION == 9

\* u8::MAX
U8Max == 255

\* State::new at the instant now: sw stopped at zero, since_stop started.
State_new(now) ==
    [sw |-> Stopwatch_default,
     since_stop |-> Stopwatch_new(DurZero, TRUE, now),
     prec |-> DEFAULT_PRECISION]

\* State::set_prec: the precision stored in place of prec, and Ok or
\* Err of the clamped value.
set_prec(prec, new) ==
    IF new > MAX_PRECISION THEN [prec |-> MAX_PRECISION, ret |-> "Err"]
    ELSE [prec |-> new, ret |-> "Ok"]

\* str::parse::<u8>: the digit loop of parse_u64 with u8::MAX as the
\* bound, so a run of leading digits past 255 is PosOverflow whatever
\* follows it.
parse_u8(cl) ==
    LET ds  == IF Len(cl) > 1 /\ Head(cl) = "+" THEN Tail(cl) ELSE cl
        n   == IF \A i \in 1..Len(ds) : ds[i] \in Digits THEN Len(ds)
               ELSE (CHOOSE i \in 1..Len(ds) :
                        /\ ds[i] \notin Digits
                        /\ \A j \in 1..(i - 1) : ds[j] \in Digits) - 1
        val == BigOfDigits(SubSeq(ds, 1, n))
    IN  IF cl = <<>> THEN [ok |-> FALSE, val |-> 0, err |-> "Empty"]
        ELSE IF BigLess(BigFromNat(U8Max), val)
             THEN [ok |-> FALSE, val |-> 0, err |-> "PosOverflow"]
        ELSE IF n < Len(ds) \/ n = 0
             THEN [ok |-> FALSE, val |-> 0, err |-> "InvalidDigit"]
        ELSE [ok |-> TRUE, val |-> BigToNat(val), err |-> ""]

\* Sw::checked_elapsed_at: <<>> for None, when the time run so far does
\* not fit on top of the stored time.
checked_elapsed_at(w, now) ==
    IF /\ is_running(w)
       /\ dur_checked_add(w.elapsed,
                          saturating_duration_since(now, w.start.at)) = NoDur
    THEN <<>>
    ELSE <<Stopwatch_elapsed(w, now)>>

\* Sw::checked_toggle_at: <<>> for None, which leaves a running stopwatch
\* running when its elapsed time overflows.
checked_toggle_at(w, now) ==
    IF is_running(w)
    THEN IF checked_elapsed_at(w, now) = <<>> THEN <<>>
         ELSE <<Stopwatch_stop(w, now).sw>>
    ELSE <<Stopwatch_start(w, now).sw>>

\* Sw::checked_add: the stored time plus d, <<>> for None on overflow.
checked_add(w, d) ==
    IF dur_checked_add(w.elapsed, d) = NoDur THEN <<>>
    ELSE <<[w EXCEPT !.elapsed = dur_checked_add(@, d)]>>

\* Sw::checked_sub_at: <<>> for None when the elapsed time overflows or
\* is less than d.
checked_sub_at(w, d, now) ==
    LET e == checked_elapsed_at(w, now)
    IN  IF e = <<>> THEN <<>>
        ELSE IF dur_less(e[1], d) THEN <<>>
        ELSE <<Stopwatch_sub(w, d, now)>>

\* Sw::reset_in_place: zero elapsed time, running on if it ran.
reset_in_place(w, now) == Stopwatch_new(DurZero, is_running(w), now)

\* The texts typed at "new elapsed? " and "offset by? ", as Shell::read
\* trims them.
DurTexts ==
    {<<>>, <<"3", "s">>, <<"-", "3", "s">>, <<"-", "0", ":", "3">>, <<"x">>,
     U64MaxText \o <<"s">>, U64MaxText \o <<"h">>}

\* ReadDur::parse of each of these texts with allow_neg = a, over the
\* builds.
ReadDurs ==
    [text \in DurTexts |-> [a \in BOOLEAN |-> ParseResults(text, a)]]

\* The texts typed at "new precision? ".
PrecTexts ==
    {<<>>, <<"3">>, <<"9">>, <<"1", "0">>, <<"+", "3">>, <<"2", "5", "6">>,
     <<"2", "5", "6", "x">>, <<"9", "x">>, <<"-", "3">>}

\* The command loop starts: State::new.
StateInit ==
    /\ ParserIdle
    /\ WatchIdle
    /\ state = State_new(0)
    /\ cmd = NoCmd

\* State::update has read the command name with the text arg typed at its
\* prompt, at the instant clock: it leaves the state st and has written
\* the lines msg.  alive is FALSE when it panicked or was Quit, and then
\* no prompt follows.
Updated(name, arg, st, msg, alive) ==
    /\ state # NoState
    /\ cmd.alive
    /\ steps < MaxSteps
    /\ steps' = steps + 1
    /\ state' = st
    /\ cmd' = [name |-> name, arg |-> arg, msg |-> msg, alive |-> alive,
               old |-> state, at |-> clock]
    /\ UNCHANGED <<ParserVars, clock, watch, op>>

\* Command::Display
Command_Display ==
    Updated("display", <<>>, state,
            <<IF is_running(state.sw) THEN "running" ELSE "stopped">>
            \o (IF checked_elapsed_at(state.sw, clock) = <<>>
                THEN <<"elapsed time overflowing">> ELSE <<>>),
            state.prec <= MAX_NANOS_CHARS)

\* Command::Toggle
Command_Toggle ==
    \E t \in {checked_toggle_at(state.sw, clock)} :
    \E u \in {checked_toggle_at(state.since_stop, clock)} :
    \E sw_overflow \in {t = <<>>} :
    \E sw \in {IF sw_overflow THEN Stopwatch_stop(state.sw, clock).sw
               ELSE t[1]} :
    \E since_stop \in {IF u = <<>> THEN state.since_stop ELSE u[1]} :
    \E shown \in {checked_elapsed_at(since_stop, clock) # <<>>} :
        IF is_running(sw)
        THEN Updated("toggle", <<>>,
                     [state EXCEPT !.sw = sw,
                                   !.since_stop = Stopwatch_reset(since_stop)],
                     <<"started stopwatch">>
                     \o (IF shown THEN <<"since stopped">> ELSE <<>>),
                     /\ ~sw_overflow
                     /\ shown => state.prec <= MAX_NANOS_CHARS)
        ELSE Updated("toggle", <<>>,
                     [state EXCEPT !.sw = sw, !.since_stop = since_stop],
                     <<"stopped stopwatch">>
                     \o (IF sw_overflow
                         THEN <<"new elapsed time too large, clamped to maximum">>
                         ELSE <<>>),
                     TRUE)

\* A Reset that never starts since_stop.
Command_Reset_NoStart ==
    Updated("reset", <<>>, [state EXCEPT !.sw = Stopwatch_reset(@)],
            <<"reset stopwatch">>, TRUE)

\* Command::Reset
Command_Reset ==
    LET sw_was_running == is_running(state.sw)
        started        == Stopwatch_start(state.since_stop, clock)
    IN  IF sw_was_running /\ started.ret # "Ok"
        THEN Updated("reset", <<>>, state,
                     <<"since_stop and sw are never simultaneously running or stopped">>,
                     FALSE)
        ELSE Updated("reset", <<>>,
                     [state EXCEPT
                        !.sw = Stopwatch_reset(@),
                        !.since_stop = IF sw_was_running THEN started.sw
                                       ELSE @],
                     <<IF sw_was_running THEN "stopped and reset stopwatch"
                       ELSE "reset stopwatch">>,
                     TRUE)

\* Command::Change
Command_Change ==
    \E text \in DurTexts : \E r \in ReadDurs[text][FALSE] :
        \E started \in {Stopwatch_start(state.since_stop, clock)} :
            CASE r.kind = "None" ->
                   Updated("change", text, state,
                           <<"elapsed time unchanged">>, TRUE)
              [] r.kind = "Err" ->
                   Updated("change", text, state, <<r.err.kind>>, TRUE)
              [] r.kind = "Panic" ->
                   Updated("change", text, state, <<"panic">>, FALSE)
              [] r.kind = "Ok" /\ r.is_neg ->
                   Updated("change", text, state,
                           <<"assertion failed: !is_neg">>, FALSE)
              [] r.kind = "Ok" /\ ~r.is_neg
                   /\ is_running(state.sw) /\ started.ret # "Ok" ->
                   Updated("change", text, state,
                           <<"since_stop and sw are never simultaneously running or stopped">>,
                           FALSE)
              [] OTHER ->
                   Updated("change", text,
                           [state EXCEPT
                              !.sw = Stopwatch_set(@, r.dur),
                              !.since_stop = IF is_running(state.sw)
                                             THEN started.sw ELSE @],
                           <<"updated elapsed time">>, TRUE)

\* Command::Offset
Command_Offset ==
    \E text \in DurTexts : \E r \in ReadDurs[text][TRUE] :
        \E less \in {IF r.kind = "Ok"
                      THEN checked_sub_at(state.sw, r.dur, clock)
                      ELSE <<>>} :
        \E more \in {IF r.kind = "Ok" THEN checked_add(state.sw, r.dur)
                      ELSE <<>>} :
            CASE r.kind = "None" ->
                   Updated("offset", text, state,
                           <<"no offset applied">>, TRUE)
              [] r.kind = "Err" ->
                   Updated("offset", text, state, <<r.err.kind>>, TRUE)
              [] r.kind = "Panic" ->
                   Updated("offset", text, state, <<"panic">>, FALSE)
              [] r.kind = "Ok" /\ r.is_neg /\ less # <<>> ->
                   Updated("offset", text, [state EXCEPT !.sw = less[1]],
                           <<"subtracted from elapsed time">>, TRUE)
              [] r.kind = "Ok" /\ r.is_neg /\ less = <<>>
                   /\ checked_elapsed_at(state.sw, clock) # <<>> ->
                   Updated("offset", text,
                           [state EXCEPT !.sw = reset_in_place(@, clock)],
                           <<"subtracted from elapsed time",
                             "elapsed time clamped to zero">>, TRUE)
              [] r.kind = "Ok" /\ r.is_neg /\ less = <<>>
                   /\ checked_elapsed_at(state.sw, clock) = <<>> ->
                   Updated("offset", text,
                           [state EXCEPT
                              !.sw = Stopwatch_sub(@, r.dur, clock)],
                           <<"subtracted from elapsed time">>, TRUE)
              [] r.kind = "Ok" /\ ~r.is_neg /\ more # <<>> ->
                   Updated("offset", text, [state EXCEPT !.sw = more[1]],
                           <<"added to elapsed time">>, TRUE)
              [] OTHER ->
                   Updated("offset", text, state,
                           <<"cannot add offset, new elapsed time would overflow">>,
                           TRUE)

\* Command::Precision
Command_Precision ==
    \E text \in PrecTexts :
        LET parsed == parse_u8(text)
            set    == set_prec(state.prec,
                               IF parsed.ok THEN parsed.val ELSE U8Max)
        IN  IF text = <<>>
            THEN IF state.prec = DEFAULT_PRECISION
                 THEN Updated("precision", text, state,
                              <<"precision unchanged">>, TRUE)
                 ELSE Updated("precision", text,
                              [state EXCEPT !.prec = DEFAULT_PRECISION],
                              <<"reset precision to 2">>, TRUE)
            ELSE IF parsed.ok \/ parsed.err = "PosOverflow"
                 THEN Updated("precision", text,
                              [state EXCEPT !.prec = set.prec],
                              <<IF set.ret = "Err"
                                THEN "precision clamped to 9"
                                ELSE "updated precision">>, TRUE)
            ELSE Updated("precision", text, state, <<parsed.err>>, TRUE)

\* Command::Quit
Command_Quit == Updated("quit", <<>>, state, <<"goodbye">>, FALSE)

StateNext ==
    \/ Tick
    \/ Command_Display
    \/ Command_Toggle
    \/ Command_Reset
    \/ Command_Change
    \/ Command_Offset
    \/ Command_Precision
    \/ Command_Quit

StateSpec == StateInit /\ [][StateNext]_vars

(***************************************************************************)
(* Properties of the dispatcher and of the sign                            *)
(***************************************************************************)

\* A call has returned (or panicked).
Done == pc = "done"

\* The text s without its cluster i.
Without(s, i) == SubSeq(s, 1, i - 1) \o SubSeq(s, i + 1, Len(s))

\* Cluster i of s is its first cluster that is not whitespace.
FirstToken(s, i) ==
    /\ i \in 1..Len(s)
    /\ ~IsWs(s[i])
    /\ \A j \in 1..(i - 1) : IsWs(s[j])

\* s is a minus sign, after whitespace at most, before a text that either
\* grammar accepts as a duration.
MinusSigned(s) ==
    \E i \in 1..Len(s) :
        /\ FirstToken(s, i)
        /\ s[i] = "-"
        /\ \E rest \in {Without(s, i)} :
               \A r \in ParseResults(rest, TRUE) :
                   r.kind = "Ok" /\ ~r.is_neg

\* C1: ReadDur::parse(s, false) never returns Ok with is_neg = true,
\* whichever grammar handles s, so assert!(!is_neg) of the Change command
\* cannot fire.
C1_NoNegativeWhenDisallowed ==
    (Done /\ entry = "parse" /\ ~allow_neg)
        => ~(result.kind = "Ok" /\ result.is_neg)

\* C2: with allow_neg = false a text that carries a minus sign and is
\* otherwise well formed yields Err(Negative) in both grammars, leading
\* whitespace included, and in the colon grammar the span of the error is
\* the minus token.
C2_MinusYieldsNegative ==
    (Done /\ entry = "parse" /\ ~allow_neg /\ MinusSigned(input))
        => /\ result.kind = "Err"
           /\ result.err.kind = "Negative"
           /\ (\E i \in 1..Len(input) : input[i] = ":")
                  => \E i \in 1..Len(input) :
                         /\ FirstToken(input, i)
                         /\ result.span = ByteSpan(Off(input, i), 1)

\* C3: for a text that is not empty, parse returns the result of the colon
\* grammar when the text holds a ':' and the result of the unit grammar
\* otherwise, and nothing else.
C3_DispatchOnColon ==
    (Done /\ entry = "parse" /\ input # <<>>)
        => IF \E i \in 1..Len(input) : input[i] = ":"
           THEN result = parse_as_sw(input, allow_neg)
           ELSE result \in UnitResults(input)

\* "3:0", which only the colon grammar accepts, has been parsed through
\* the dispatcher to 180 s.
C3_Witness ==
    /\ Done /\ entry = "parse"
    /\ input = <<"3", ":", "0">>
    /\ result = Ok(from_secs(BigFromNat(180)), FALSE)

\* C4: parse returns None exactly for the empty text, and for every other
\* text it returns Some of an Ok or an Err.
C4_NoneIffEmpty ==
    (Done /\ entry = "parse")
        => /\ (result = None) <=> (input = <<>>)
           /\ input # <<>> => result.kind \in {"Ok", "Err"}

\* C5: through parse with allow_neg = true, "-3" is Ok of 3 s with
\* is_neg = true and "3-" is Err(UnexpectedSign).
C5_SignedNumberThroughParse ==
    (Done /\ entry = "parse" /\ allow_neg)
        => /\ input = <<"-", "3">>
                  => result = Ok(from_secs(BigFromNat(3)), TRUE)
           /\ input = <<"3", "-">>
                  => result.kind = "Err" /\ result.err.kind = "UnexpectedSign"

(***************************************************************************)
(* Properties of the colon grammar                                         *)
(***************************************************************************)

\* The written values the equivalences are checked for.
Values == {<<"0">>, <<"3">>, <<"0", "3">>, <<"9", "9">>, U64MaxText}

\* The ways of writing v in the seconds field.
SecondsForms(v) ==
    {v, <<":">> \o v, <<"0", ":">> \o v, <<":", ":">> \o v,
     <<"0", ":", ":">> \o v, <<":", "0", ":">> \o v,
     <<"0", ":", "0", ":">> \o v}

\* The ways of writing v in the minutes field.
MinutesForms(v) ==
    {v \o <<":">>, <<":">> \o v \o <<":">>, <<":">> \o v \o <<":", "0">>,
     <<"0", ":">> \o v \o <<":">>, <<"0", ":">> \o v \o <<":", "0">>}

\* The value a digit text writes.
ValueOf(v) == BigOfDigits(v)

\* C6: the fields are right-anchored, and a left-out group, an empty group
\* and a group written 0 are the same: every form of v in the seconds
\* field yields v seconds, every form of v in the minutes field yields
\* 60 * v seconds when that fits, and a '-' before it gives the same
\* magnitude with is_neg = true.
C6_RightAnchored ==
    (Done /\ entry = "parse_as_sw")
        => \A v \in Values :
               /\ input \in SecondsForms(v)
                      => result = Ok(from_secs(ValueOf(v)), FALSE)
               /\ (input \in {<<"-">> \o f : f \in SecondsForms(v)}
                   /\ allow_neg)
                      => result = Ok(from_secs(ValueOf(v)), TRUE)
               /\ (input \in MinutesForms(v)
                   /\ FitsU64(BigMul(ValueOf(v), 60)))
                      => result = Ok(from_secs(BigMul(ValueOf(v), 60)), FALSE)
               /\ (input \in {<<"-">> \o f : f \in MinutesForms(v)}
                   /\ allow_neg /\ FitsU64(BigMul(ValueOf(v), 60)))
                      => result = Ok(from_secs(BigMul(ValueOf(v), 60)), TRUE)

\* "-0:99:0" has been parsed to 5940 s, negative.
C6_Witness ==
    /\ Done /\ entry = "parse_as_sw" /\ allow_neg
    /\ input = <<"-", "0", ":", "9", "9", ":", "0">>
    /\ result = Ok(from_secs(BigFromNat(5940)), TRUE)

\* The texts without a digit that the colon grammar accepts.
ZeroForms == {<<>>, <<":">>, <<":", ".">>, <<":", ":">>, <<":", ":", ".">>}

\* C7: parse_as_sw accepts "", ":", ":.", "::" and "::." as the zero
\* duration with is_neg = false, and the same after a '-' as the zero
\* duration with is_neg = true when negatives are allowed.
C7_ZeroWithoutDigits ==
    (Done /\ entry = "parse_as_sw")
        => /\ input \in ZeroForms => result = Ok(DurZero, FALSE)
           /\ (input \in {<<"-">> \o z : z \in ZeroForms} /\ allow_neg)
                  => result = Ok(DurZero, TRUE)

\* "-::." has been parsed to a negative zero.
C7_Witness ==
    /\ Done /\ entry = "parse_as_sw" /\ allow_neg
    /\ input = <<"-", ":", ":", ".">>
    /\ result = Ok(DurZero, TRUE)

\* The text without its whitespace clusters.
NoWs(s) == SelectSeq(s, LAMBDA c : ~IsWs(c))

\* The text without a sign at its start.
Unsigned(s) == IF s # <<>> /\ Head(s) \in {"+", "-"} THEN Tail(s) ELSE s

\* Index of the last cluster c of s, 0 when there is none.
LastIndexOf(s, c) ==
    IF \E i \in 1..Len(s) : s[i] = c
    THEN CHOOSE i \in 1..Len(s) :
             s[i] = c /\ \A j \in (i + 1)..Len(s) : s[j] # c
    ELSE 0

\* The part of s after its last cluster c: all of s when there is none.
AfterLast(s, c) == SubSeq(s, LastIndexOf(s, c) + 1, Len(s))

\* The part of s before its last cluster c: empty when there is none.
BeforeLast(s, c) == SubSeq(s, 1, LastIndexOf(s, c) - 1)

\* The fields of a text read forward: the seconds are what follows the
\* last ':', the minutes what lies between the last two, the hours what
\* comes before; the seconds split at the '.' into whole and fraction.
FieldsOf(s) ==
    LET t    == Unsigned(NoWs(s))
        sec  == AfterLast(t, ":")
        rest == BeforeLast(t, ":")
        dot  == LastIndexOf(sec, ".")
    IN  [hours   |-> BeforeLast(rest, ":"),
         minutes |-> AfterLast(rest, ":"),
         seconds |-> IF dot = 0 THEN sec ELSE SubSeq(sec, 1, dot - 1),
         frac    |-> IF dot = 0 THEN <<>> ELSE SubSeq(sec, dot + 1, Len(sec))]

RECURSIVE Pow10(_)
Pow10(n) == IF n = 0 THEN 1 ELSE 10 * Pow10(n - 1)

RECURSIVE NanosOf(_, _)
\* The nanoseconds a fraction writes: digit i counts 10^(9 - i), the
\* digits past the ninth nothing.
NanosOf(f, i) ==
    IF i > Len(f) \/ i > NanosDigits THEN 0
    ELSE DigitVal(f[i]) * Pow10(NanosDigits - i) + NanosOf(f, i + 1)

\* hours * 3600 + minutes * 60 + seconds
WholeSecondsOf(fs) ==
    BigAdd(BigAdd(BigMul(ValueOf(fs.hours), 3600),
                  BigMul(ValueOf(fs.minutes), 60)),
           ValueOf(fs.seconds))

\* C8: the duration of an accepted text is hours * 3600 + minutes * 60 +
\* seconds plus the fraction in nanoseconds, absent and empty fields
\* counting 0; minutes and seconds are not limited to 59, a text of digit
\* fields being accepted whenever the sum fits.
C8_DurationOfFields ==
    (Done /\ entry = "parse_as_sw")
        => LET fs == FieldsOf(input)
           IN  /\ result.kind = "Ok"
                      => result.dur = Dur(WholeSecondsOf(fs), NanosOf(fs.frac, 1))
               /\ (/\ NoWs(input) = input
                   /\ Unsigned(input) = input
                   /\ \A i \in 1..Len(input) : input[i] \in Digits \cup {":"}
                   /\ Len(SelectSeq(input, LAMBDA c : c = ":")) <= 2
                   /\ FitsU64(WholeSecondsOf(fs)))
                      => result.kind = "Ok"

\* "0:99" has been parsed to 99 s.
C8_Witness ==
    /\ Done /\ entry = "parse_as_sw"
    /\ input = <<"0", ":", "9", "9">>
    /\ result = Ok(from_secs(BigFromNat(99)), FALSE)

\* The last token the scan took is a sign.
SignScanned ==
    /\ scanned # <<>>
    /\ scanned[Len(scanned)].typ \in {"Pos", "Neg"}

\* C9: a '+' or '-' is accepted only as the first token of the text read
\* forward; a sign the scan meets anywhere else ends it with
\* Err(UnexpectedSign) whose span is that sign, and no accepted text holds
\* a sign elsewhere.
C9_SignOnlyFirst ==
    /\ SignScanned
           => LET tok == scanned[Len(scanned)]
                  i   == IdxAt(input, tok.span.start)
              IN  /\ tok.span = ByteSpan(Off(input, i), 1)
                  /\ input[i] = (IF tok.typ = "Neg" THEN "-" ELSE "+")
                  /\ IF FirstToken(input, i)
                     THEN /\ is_neg = (IF tok.typ = "Neg" THEN "neg" ELSE "pos")
                          /\ result.err.kind # "UnexpectedSign"
                     ELSE /\ result.kind = "Err"
                          /\ result.err.kind = "UnexpectedSign"
                          /\ result.span = tok.span
    /\ (Done /\ entry = "parse_as_sw" /\ result.kind = "Ok")
           => \A i \in 1..Len(input) :
                  input[i] \in {"+", "-"} => FirstToken(input, i)

\* "3-3" has been refused for the sign at byte 1.
C9_Witness ==
    /\ Done /\ entry = "parse_as_sw"
    /\ input = <<"3", "-", "3">>
    /\ SignScanned
    /\ result.err.kind = "UnexpectedSign"
    /\ result.span = ByteSpan(1, 1)

\* C10: no error of parse_as_sw or parse_as_unit carries the positive
\* overflow of the integer parser: a field past 64 bits is reported as
\* DurationOverflow or DurOverflow.
C10_NoRawOverflow ==
    (Done /\ entry \in {"parse_as_sw", "parse_as_unit"}
          /\ result.kind = "Err")
        => result.err.int # "PosOverflow"

(***************************************************************************)
(* Overflow of the duration in the colon grammar                           *)
(***************************************************************************)

\* The text is an optional sign and then digits, at most two ':' and at
\* most one '.', the '.' after the last ':'.
PlainColonForm(s) ==
    LET t == Unsigned(s)
    IN  /\ \A i \in 1..Len(t) : t[i] \in Digits \cup {":", "."}
        /\ Len(SelectSeq(t, LAMBDA c : c = ":")) <= 2
        /\ Len(SelectSeq(t, LAMBDA c : c = ".")) <= 1
        /\ \A i \in 1..Len(BeforeLast(t, ":")) : BeforeLast(t, ":")[i] # "."

\* Where the whole fields of such a text lie in it, read forward.
FieldSpanOf(s, group) ==
    LET fs   == FieldsOf(s)
        sign == Len(s) - Len(Unsigned(s))
        rest == BeforeLast(Unsigned(s), ":")
        sec  == AfterLast(Unsigned(s), ":")
    IN  CASE group = "Hours" -> ByteSpan(sign, Len(fs.hours))
          [] group = "Minutes" ->
               ByteSpan(sign + Len(rest) - Len(fs.minutes), Len(fs.minutes))
          [] group = "SecondsInt" ->
               ByteSpan(Len(s) - Len(sec), Len(fs.seconds))

\* The first whole field, in the order hours, minutes, seconds, at which
\* the seconds leave 64 bits, by the product or by the sum; "" when none
\* does.
OverflowGroupOf(fs) ==
    LET h == BigMul(ValueOf(fs.hours), SEC_PER_HOUR)
        m == BigMul(ValueOf(fs.minutes), SEC_PER_MIN)
    IN  IF ~FitsU64(h) THEN "Hours"
        ELSE IF ~FitsU64(m) \/ ~FitsU64(BigAdd(h, m)) THEN "Minutes"
        ELSE IF ~FitsU64(WholeSecondsOf(fs)) THEN "SecondsInt"
        ELSE ""

\* C11: in parse_as_sw a field whose product with its seconds per unit, or
\* whose sum with the running total, leaves 64-bit seconds yields
\* Err(DurationOverflow(g)) with g the field processed at that step (hours,
\* minutes, seconds, subseconds in this order) and the span of that field;
\* an Ok never carries wrapped seconds.
C11_OverflowNamesField ==
    (Done /\ entry = "parse_as_sw")
        => /\ (result.kind = "Err" /\ result.err.kind = "DurationOverflow")
                  => /\ result.err.arg \in {"Hours", "Minutes", "SecondsInt"}
                     /\ result.span = groups[result.err.arg]
           /\ result.kind = "Ok"
                  => /\ FitsU64(WholeSecondsOf(FieldsOf(input)))
                     /\ result.dur.secs = WholeSecondsOf(FieldsOf(input))
           /\ (/\ PlainColonForm(input)
               /\ input # <<>> /\ Head(input) = "-" => allow_neg
               /\ \A f \in {FieldsOf(input).hours, FieldsOf(input).minutes,
                             FieldsOf(input).seconds} : FitsU64(ValueOf(f)))
                  => LET g == OverflowGroupOf(FieldsOf(input))
                     IN  IF g = "" THEN result.kind = "Ok"
                         ELSE result =
                                  Err(ParseErr(FieldSpanOf(input, g),
                                      ErrKind("DurationOverflow", g, "")))

\* "3:18446744073709551615": the minutes fit, and adding the seconds to
\* them has overflowed at the seconds field.
C11_Witness ==
    /\ Done /\ entry = "parse_as_sw"
    /\ input = <<"3", ":">> \o U64MaxText
    /\ result = Err(ParseErr(ByteSpan(2, 20),
                             ErrKind("DurationOverflow", "SecondsInt", "")))

(***************************************************************************)
(* The unit of the unit grammar                                            *)
(***************************************************************************)

\* Index of the last cluster of s that is not whitespace, 0 when there is
\* none.
LastTokenIndex(s) ==
    IF \A i \in 1..Len(s) : IsWs(s[i]) THEN 0
    ELSE CHOOSE i \in 1..Len(s) :
             ~IsWs(s[i]) /\ \A j \in (i + 1)..Len(s) : IsWs(s[j])

\* C12: parse_as_unit takes the last cluster before the trailing
\* whitespace as the unit: without one the result is Err(UnitMissing), and
\* a cluster other than "s", "m", "h" yields Err(UnitUnknown(cluster)) with
\* the span of that whole cluster, whatever precedes it.
C12_UnitIsLastCluster ==
    (Done /\ entry = "parse_as_unit")
        => LET n == LastTokenIndex(input)
           IN  /\ n = 0 <=> (result.kind = "Err"
                                /\ result.err.kind = "UnitMissing")
               /\ (n # 0 /\ input[n] \notin {"s", "m", "h"})
                      => result =
                             Err(ParseErr(ByteSpan(Off(input, n),
                                                   CLen(input[n])),
                                 ErrKind("UnitUnknown", input[n], "")))
               /\ (n # 0 /\ input[n] \in {"s", "m", "h"})
                      => ~(result.kind = "Err"
                             /\ result.err.kind = "UnitUnknown")

\* " -3.5 " and then the plant emoji: the four bytes of the emoji at byte 6
\* are the unknown unit.
C12_Witness ==
    /\ Done /\ entry = "parse_as_unit"
    /\ input = <<" ", "-", "3", ".", "5", " ", Plant>>
    /\ result = Err(ParseErr(ByteSpan(6, 4),
                             ErrKind("UnitUnknown", Plant, "")))

\* The text in front of the unit: the clusters before the last one that is
\* not whitespace.
BodyOf(s) == SubSeq(s, 1, LastTokenIndex(s) - 1)

\* C13: parse_as_unit returns Ok only for a body with a digit in it; a
\* body that is empty, whitespace, a bare sign or a bare '.' in front of a
\* valid unit yields Err(DurMissing(unit)), never Ok with a zero duration.
C13_NoNumberIsDurMissing ==
    (Done /\ entry = "parse_as_unit")
        => LET n == LastTokenIndex(input)
           IN  /\ result.kind = "Ok"
                      => \E i \in 1..(n - 1) : input[i] \in Digits
               /\ (/\ n # 0
                   /\ input[n] \in {"s", "m", "h"}
                   /\ NoWs(BodyOf(input)) \in {<<>>, <<"+">>, <<"-">>, <<".">>})
                      => /\ result.kind = "Err"
                         /\ result.err.kind = "DurMissing"
                         /\ result.err.arg = from_grapheme(input[n])

(***************************************************************************)
(* The value of the unit grammar                                           *)
(***************************************************************************)

\* The number written in front of the unit, without whitespace and sign.
NumberOf(s) == Unsigned(NoWs(BodyOf(s)))

\* Its clusters before the '.', all of them when there is none.
IntTextOf(t) ==
    IF LastIndexOf(t, ".") = 0 THEN t ELSE BeforeLast(t, ".")

\* Its clusters after the '.', none when there is none.
FracTextOf(t) ==
    IF LastIndexOf(t, ".") = 0 THEN <<>> ELSE AfterLast(t, ".")

\* A number: digits with at most one '.' among them, one digit at least.
IsNumber(t) ==
    /\ \A i \in 1..Len(t) : t[i] \in Digits \cup {"."}
    /\ Len(SelectSeq(t, LAMBDA c : c = ".")) <= 1
    /\ \E i \in 1..Len(t) : t[i] \in Digits

\* Seconds per unit of a unit cluster.
FactorOf(u) == CASE u = "s" -> 1 [] u = "m" -> 60 [] u = "h" -> 3600

\* a * 10^9
Giga(a) == IF a = <<>> THEN <<>> ELSE <<0, 0, 0, 0, 0, 0, 0, 0, 0>> \o a

\* A duration in nanoseconds.
TotalNanos(d) == BigAdd(Giga(d.secs), BigFromNat(d.nanos))

\* (integer * 10^9 + fraction in nanoseconds) * k for a number t, formed
\* as integer * k * 10^9 + fraction * k.
NumberNanos(t, k) ==
    BigAdd(Giga(BigMul(ValueOf(IntTextOf(t)), k)),
           BigMul(BigFromNat(NanosOf(FracTextOf(t), 1)), k))

\* Whether that many nanoseconds are a Duration: the whole seconds fit 64
\* bits.
FitsDuration(n) == FitsU64(SubSeq(n, NanosDigits + 1, Len(n)))

\* The whitespace of the text stands before the number, next to its '.',
\* between number and unit or after the unit.
WsAroundNumber(s) ==
    LET n == LastTokenIndex(s)
    IN  \A i \in 2..(n - 2) :
            IsWs(s[i]) => \/ "." \in {s[i - 1], s[i + 1]}
                          \/ \A j \in 1..i : IsWs(s[j])
                          \/ \A j \in i..(n - 1) : IsWs(s[j])

\* The text has a valid unit and in front of it a number of an integer
\* that fits 64 bits and of at most nine fraction digits, with whitespace
\* only around the number, its '.' and the unit.
UnitNumberForm(s) ==
    LET n == LastTokenIndex(s)
        t == NumberOf(s)
    IN  /\ n # 0 /\ s[n] \in {"s", "m", "h"}
        /\ IsNumber(t)
        /\ FitsU64(ValueOf(IntTextOf(t)))
        /\ Len(FracTextOf(t)) <= NanosDigits
        /\ WsAroundNumber(s)

\* C14: the duration parse_as_unit accepts is (integer * 10^9 + fraction
\* in nanoseconds) * k, k being 1, 60, 3600 for s, m, h and a fraction of
\* n <= 9 digits d counting d * 10^(9 - n) ns; a product past the largest
\* duration is Err(DurOverflow(unit)).
C14_UnitValue ==
    (Done /\ entry = "parse_as_unit" /\ UnitNumberForm(input))
        => LET u == input[LastTokenIndex(input)]
               k == FactorOf(u)
               t == NumberOf(input)
           IN  IF FitsU64(BigMul(ValueOf(IntTextOf(t)), k))
                  /\ FitsDuration(NumberNanos(t, k))
               THEN /\ result.kind = "Ok"
                    /\ TotalNanos(result.dur) = NumberNanos(t, k)
               ELSE /\ result.kind = "Err"
                    /\ result.err.kind = "DurOverflow"
                    /\ result.err.arg = from_grapheme(u)

\* C15: whitespace before the number, between the integer and the '.',
\* between number and unit or after the unit does not change what
\* parse_as_unit returns: the text yields the Ok value of the text without
\* its whitespace.
C15_UnitWhitespace ==
    (/\ Done /\ entry = "parse_as_unit"
     /\ WsAroundNumber(input)
     /\ \E bare \in {NoWs(input)} :
            \A r \in UnitResults(bare) : r.kind = "Ok")
        => result \in UnitResults(NoWs(input))

\* Index of the last digit cluster of s, 0 when there is none.
LastDigitIndex(s) ==
    IF \A i \in 1..Len(s) : s[i] \notin Digits THEN 0
    ELSE CHOOSE i \in 1..Len(s) :
             s[i] \in Digits /\ \A j \in (i + 1)..Len(s) : s[j] \notin Digits

\* The text without the fraction digits past the ninth.
CutToNanos(s) ==
    LET excess == Len(FracTextOf(NumberOf(s))) - NanosDigits
        last   == LastDigitIndex(s)
    IN  SubSeq(s, 1, last - excess) \o SubSeq(s, last + 1, Len(s))

\* C16: parse_as_unit accepts a fraction of more than nine digits and
\* ignores the digits past the ninth without rounding: the text yields what
\* the text cut to nine fraction digits yields, and no error for its length.
C16_UnitFractionTruncated ==
    (/\ Done /\ entry = "parse_as_unit"
     /\ LastTokenIndex(input) # 0
     /\ input[LastTokenIndex(input)] \in {"s", "m", "h"}
     /\ IsNumber(NumberOf(input))
     /\ FitsU64(ValueOf(IntTextOf(NumberOf(input))))
     /\ Len(FracTextOf(NumberOf(input))) > NanosDigits
     /\ WsAroundNumber(input))
        => /\ \E cut \in {CutToNanos(input)} :
                  \E r \in UnitResults(cut) :
                      /\ r.kind = result.kind /\ r.err = result.err
                      /\ r.dur = result.dur /\ r.is_neg = result.is_neg
           /\ result.kind = "Err"
                  => result.err.kind \notin {"FractionalTooLong", "ParseInt"}

(***************************************************************************)
(* parse_frac                                                              *)
(***************************************************************************)

\* The first w clusters of the digit text d, with zeros after them when
\* they are fewer: the numerator d writes over 10^w, as typed.
PaddedTo(d, w) ==
    [i \in 1..w |-> IF i <= Len(d) THEN d[i] ELSE "0"]

\* C17: parse_frac(d, W) of a text d of digits is the sum of digit_i *
\* 10^(W - i) over its first W digits, so that a shorter text is scaled up
\* and the digits past W are dropped without rounding; through parse_as_sw
\* a subseconds field of more than nine digits is accepted and truncated
\* to nanoseconds.
C17_FracTruncates ==
    /\ (/\ Done /\ entry = "parse_frac"
        /\ \A i \in 1..Len(input) : input[i] \in Digits
        /\ BigLeq(BigOfDigits(PaddedTo(input, frac_places)), U32Max))
           => frac_ret = FracOk(BigOfDigits(PaddedTo(input, frac_places)))
    /\ (/\ Done /\ entry = "parse_as_sw"
        /\ PlainColonForm(input)
        /\ input # <<>> /\ Head(input) = "-" => allow_neg
        /\ Len(FieldsOf(input).frac) > NanosDigits
        /\ \A f \in {FieldsOf(input).hours, FieldsOf(input).minutes,
                      FieldsOf(input).seconds} : FitsU64(ValueOf(f))
        /\ OverflowGroupOf(FieldsOf(input)) = "")
           => /\ result.kind = "Ok"
              /\ result.dur.nanos =
                     BigToNat(BigOfDigits(PaddedTo(FieldsOf(input).frac,
                                                   NanosDigits)))

\* parse_frac("23", 1) has returned 2, and not 3.
C17_Witness ==
    /\ Done /\ entry = "parse_frac"
    /\ input = <<"2", "3">> /\ frac_places = 1
    /\ frac_ret = FracOk(<<2>>)

\* "3.1234567899" has been parsed by parse_as_sw to 3 s and 123456789 ns.
C17_SwWitness ==
    /\ Done /\ entry = "parse_as_sw"
    /\ input = <<"3", ".", "1", "2", "3", "4", "5", "6", "7", "8", "9", "9">>
    /\ result = Ok(Dur(BigFromNat(3), 123456789), FALSE)

\* Every cluster of the text is a digit.
IsDigits(t) == \A i \in 1..Len(t) : t[i] \in Digits

\* Index of the first cluster c of s, 0 when there is none.
FirstIndexOf(s, c) ==
    IF \E i \in 1..Len(s) : s[i] = c
    THEN CHOOSE i \in 1..Len(s) : s[i] = c /\ \A j \in 1..(i - 1) : s[j] # c
    ELSE 0

\* The clusters from..to of s hold a fractional field, whitespace around
\* it apart: the index of the first cluster among the first nine of the
\* field that is no digit, 0 when there is none.
FirstBadCluster(s, from, to) ==
    LET field == {i \in from..to : ~IsWs(s[i])}
        a     == CHOOSE i \in field : \A j \in field : i <= j
        b     == CHOOSE i \in field : \A j \in field : j <= i
        bad   == {i \in a..b : i < a + NanosDigits /\ s[i] \notin Digits}
    IN  IF field = {} \/ bad = {} THEN 0
        ELSE CHOOSE i \in bad : \A j \in bad : i <= j

\* The text of the colon form in front of the '.' at cluster d is one
\* that parse_as_sw accepts, and no token follows that '.'.
SwWholeAccepted(s, allow, d) ==
    LET w == SubSeq(s, 1, d - 1)
    IN  /\ PlainColonForm(w) /\ FirstIndexOf(w, ".") = 0
        /\ w # <<>> /\ Head(w) = "-" => allow
        /\ \A f \in {FieldsOf(w).hours, FieldsOf(w).minutes,
                      FieldsOf(w).seconds} : FitsU64(ValueOf(f))
        /\ OverflowGroupOf(FieldsOf(w)) = ""
        /\ \A i \in (d + 1)..Len(s) : s[i] \notin {":", ".", "+", "-"}

\* The text of the unit form in front of the '.' at cluster d is an
\* integer that parse_as_unit accepts, or none, and a valid unit ends the
\* text.
UnitWholeAccepted(s, d) ==
    LET n == LastTokenIndex(s)
        w == trim(Unsigned(SubSeq(s, 1, d - 1)))
    IN  /\ d < n /\ s[n] \in {"s", "m", "h"}
        /\ IsDigits(w) /\ FitsU64(ValueOf(w))

\* C18: a cluster of a fractional field that is no single digit makes
\* parse_frac return ParseDigit{idx, len} with the byte offset of the
\* first such cluster in the field and its byte length, and both grammars
\* turn it into an integer-parse error whose span is that cluster in the
\* text, not the field.
C18_BadFractionCluster ==
    /\ (Done /\ entry = "parse_frac")
           => LET bad == {i \in 1..Len(input) :
                             i <= frac_places /\ input[i] \notin Digits}
              IN  \A i \in bad :
                      (/\ \A j \in bad : i <= j
                       /\ BigLeq(BigOfDigits(PaddedTo(SubSeq(input, 1, i - 1),
                                                      frac_places)), U32Max))
                          => frac_ret = FracParseDigit(Off(input, i),
                                                       CLen(input[i]))
    /\ (Done /\ entry = "parse_as_sw")
           => \E d \in {FirstIndexOf(input, ".")} :
                  \E i \in {FirstBadCluster(input, d + 1, Len(input))} :
                      (d # 0 /\ i # 0 /\ SwWholeAccepted(input, allow_neg, d))
                          => result =
                                 Err(ParseErr(ByteSpan(Off(input, i),
                                                       CLen(input[i])),
                                     ErrKind("Int", "SecondsSub",
                                             "InvalidDigit")))
    /\ (Done /\ entry = "parse_as_unit")
           => \E d \in {FirstIndexOf(input, ".")} :
                  \E i \in {FirstBadCluster(input, d + 1,
                                             LastTokenIndex(input) - 1)} :
                      (d # 0 /\ i # 0 /\ UnitWholeAccepted(input, d))
                          => result =
                                 Err(ParseErr(ByteSpan(Off(input, i),
                                                       CLen(input[i])),
                                     ErrKind("ParseInt",
                                         from_grapheme(
                                             input[LastTokenIndex(input)]),
                                         "InvalidDigit")))

(***************************************************************************)
(* Display and parse_as_sw                                                 *)
(***************************************************************************)

\* Nanoseconds cut to their first prec decimal digits.
TruncatedTo(nanos, prec) ==
    nanos - (nanos % Pow10(NanosDigits - prec))

\* C19: the text of a duration D in colon form at a precision P in 0..9
\* is accepted by parse_as_sw, which returns D with its nanoseconds cut to
\* P fraction digits: less than 10^-P s are lost, and nothing at P = 9.
C19_DisplayRoundTrip ==
    (Done /\ dfmt # NoFmt /\ dfmt.visual_cues)
        => /\ result = Ok(Dur(dfmt.dur.secs,
                              TruncatedTo(dfmt.dur.nanos, dfmt.prec)), FALSE)
           /\ dfmt.dur.nanos - result.dur.nanos
                  < Pow10(NanosDigits - dfmt.prec)
           /\ dfmt.prec = NanosDigits => result.dur = dfmt.dur

\* 1 h 1 min 1.123456789 s at precision 3 has been written as
\* "01:01:01.123" and parsed to 3661.123 s.
C19_Witness ==
    /\ Done
    /\ dfmt = DurationFmt(Dur(BigFromNat(3661), 123456789), 3, TRUE)
    /\ input = <<"0", "1", ":", "0", "1", ":", "0", "1", ".", "1", "2", "3">>
    /\ result = Ok(Dur(BigFromNat(3661), 123000000), FALSE)

(***************************************************************************)
(* The spans of the lexer's tokens                                         *)
(***************************************************************************)

\* The byte just after a span.
SpanEnd(span) == span.start + span.len

\* The clusters of s that begin at byte off, at most one (Len(s) + 1 for
\* the end of the text): a cluster before which k clusters have 4 bytes is
\* the cluster off + 1 - 3 * k.
IndexesAt(s, off) ==
    {i \in {off + 1 - 3 * k :
               k \in 0..Cardinality({j \in 1..Len(s) : s[j] = Plant})}
             \cap (1..(Len(s) + 1)) :
        Off(s, i) = off}

\* A Data token over the clusters a..b of s, as the grammar describes it:
\* both ends are clusters that are neither whitespace nor a token of their
\* own, no such token lies between them (whitespace may), and the nearest
\* cluster on either side that is not whitespace, if there is one, is a
\* token of its own.
IsDataRun(s, a, b) ==
    /\ a <= b
    /\ ~IsWs(s[a]) /\ ~IsWs(s[b])
    /\ \A i \in a..b : single_token(s[i]) = "None"
    /\ \A i \in 1..(a - 1) :
           (~IsWs(s[i]) /\ \A j \in (i + 1)..(a - 1) : IsWs(s[j]))
               => single_token(s[i]) # "None"
    /\ \A i \in (b + 1)..Len(s) :
           (~IsWs(s[i]) /\ \A j \in (b + 1)..(i - 1) : IsWs(s[j]))
               => single_token(s[i]) # "None"

\* tok is a token of s: a cluster that is a token of its own with its
\* kind, or a Data token over a run of clusters.
IsTokenOf(s, tok) ==
    \E a \in IndexesAt(s, tok.span.start) :
        \E e \in IndexesAt(s, SpanEnd(tok.span)) :
            IF tok.typ = "Data" THEN IsDataRun(s, a, e - 1)
            ELSE a = e - 1 /\ single_token(s[a]) = tok.typ

\* Only whitespace lies in s from byte from up to byte to.
OnlyWsBetween(s, from, to) ==
    \A e \in IndexesAt(s, from) :
        \A a \in IndexesAt(s, to) :
            \A j \in e..(a - 1) : IsWs(s[j])

\* The tokens scanned so far, the last of them first: forward order.
ScannedForward == [i \in 1..Len(scanned) |->
                      scanned[Len(scanned) + 1 - i]]

\* C20: every Data token of SwLexer has a span that begins and ends on a
\* cluster that is not whitespace and keeps the whitespace inside; every
\* token is one of the text's tokens, they come from right to left, and
\* what lies between two of them (or after the first) is whitespace only,
\* for which there is no token.  " 1:2    45  6 : 4 " gives Data(1,1),
\* Colon(2,1), Data(3,10), Colon(14,1), Data(16,1).
C20_DataSpansTrimmed ==
    /\ \A i \in 1..Len(scanned) :
           /\ IsTokenOf(input, scanned[i])
           /\ OnlyWsBetween(input, SpanEnd(scanned[i].span),
                            IF i = 1 THEN ByteLen(input)
                            ELSE scanned[i - 1].span.start)
    /\ (input = LexerTestText /\ Len(scanned) = 5)
           => ScannedForward =
                  <<SwToken("Data", ByteSpan(1, 1)),
                    SwToken("Colon", ByteSpan(2, 1)),
                    SwToken("Data", ByteSpan(3, 10)),
                    SwToken("Colon", ByteSpan(14, 1)),
                    SwToken("Data", ByteSpan(16, 1))>>

\* " 1:2    45  6 : 4 " has been scanned to its start: five tokens, the
\* third a Data token that keeps the whitespace inside "2    45  6".
C20_Witness ==
    /\ input = LexerTestText
    /\ Len(scanned) = 5
    /\ scanned[3] = SwToken("Data", ByteSpan(3, 10))
    /\ \E j \in 4..12 : IsWs(input[j])
    /\ content = 0

(***************************************************************************)
(* The spans of the two grammars                                           *)
(***************************************************************************)

\* The entries that run one of the two grammars.
GrammarEntries == {"parse", "parse_as_sw", "parse_as_unit"}

\* C21: for every text parse_as_unit and parse_as_sw finish without an
\* arithmetic underflow and without a slice that is out of range or inside
\* a cluster, and every span they hold or return lies within the text with
\* both ends on cluster boundaries; so for texts of the unit form with
\* leading whitespace and a '.'.
C21_SpansInRange ==
    (entry \in GrammarEntries)
        => /\ result.kind # "Panic"
           /\ result.kind = "Err" => SpanValid(result.span, input)
           /\ \A g \in Group : SpanValid(groups[g], input)
           /\ neg_span # NoSpan => SpanValid(neg_span, input)

(***************************************************************************)
(* The place of a sign in the colon grammar                                *)
(***************************************************************************)

\* All the tokens of the text, in the order of the reverse scan.
AllTokens == SwLexer_collect(input, Len(input))

\* The sign scanned as token k has been accepted.
SignAccepted(k) ==
    /\ is_neg = (IF scanned[k].typ = "Neg" THEN "neg" ELSE "pos")
    /\ result.err.kind # "UnexpectedSign"

\* The scan has ended on the sign scanned as token k with UnexpectedSign.
SignRefused(k) ==
    /\ k = Len(scanned)
    /\ result = Err(ParseErr(scanned[k].span,
                             ErrKind("UnexpectedSign",
                                     IF scanned[k].typ = "Neg" THEN "neg"
                                     ELSE "pos", "")))

\* C27 as claimed: a sign is accepted only as the first token the reverse
\* scan produces (the last token of the text read forward), and a sign at
\* any other place yields UnexpectedSign.
C27_SignOnlyFirstScanned ==
    \A k \in 1..Len(scanned) :
        scanned[k].typ \in {"Pos", "Neg"}
            => IF k = 1 THEN SignAccepted(k) ELSE SignRefused(k)

\* C27 as amended: a sign is accepted only as the last token the reverse
\* scan produces (the first token of the text read forward), and a sign
\* at any other place yields UnexpectedSign with the span of that sign.
C27_SignOnlyLastScanned ==
    \A k \in 1..Len(scanned) :
        scanned[k].typ \in {"Pos", "Neg"}
            => IF k = Len(AllTokens) THEN SignAccepted(k)
               ELSE SignRefused(k)

\* "-3:0" has been scanned to its sign, the fourth and last token, and
\* parsed to minus 180 s.
C27_Witness ==
    /\ Done /\ entry = "parse_as_sw"
    /\ input = <<"-", "3", ":", "0">>
    /\ Len(scanned) = 4 /\ scanned[4] = SwToken("Neg", ByteSpan(0, 1))
    /\ result = Ok(from_secs(BigFromNat(180)), TRUE)

(***************************************************************************)
(* Negative                                                                *)
(***************************************************************************)

\* C28: Negative is reported only for a negative value that is otherwise
\* valid: whenever parse_as_sw(s, false) returns Err(Negative),
\* parse_as_sw(s, true) returns Ok with is_neg = true.
C28_NegativeOnlyForValid ==
    (Done /\ entry = "parse_as_sw" /\ ~allow_neg
          /\ result.kind = "Err" /\ result.err.kind = "Negative")
        => \E r \in {parse_as_sw(input, TRUE)} :
               r.kind = "Ok" /\ r.is_neg

(***************************************************************************)
(* The current group of the scan                                           *)
(***************************************************************************)

\* The place of a group along SecondsSub, SecondsInt, Minutes, Hours.
Rank(g) ==
    CASE g = "SecondsSub" -> 0
      [] g = "SecondsInt" -> 1
      [] g = "Minutes"    -> 2
      [] g = "Hours"      -> 3

\* The colons among the first n tokens scanned.
ColonsScanned(sc) == Cardinality({k \in 1..Len(sc) : sc[k].typ = "Colon"})

\* C29: in every step of the reverse scan the current group stays or moves
\* on along SecondsSub, SecondsInt, Minutes, Hours; a ':' moves it from the
\* seconds to Minutes and from Minutes to Hours, a ':' met at Hours ends
\* the scan with Err(UnexpectedColon) on that colon, and so no more than two
\* colons are accepted.
C29_GroupOnlyForward ==
    [][/\ Rank(cur') >= Rank(cur)
       /\ (Len(scanned') = Len(scanned) + 1
              /\ scanned'[Len(scanned')].typ = "Colon")
             => IF cur = "Hours"
                THEN /\ cur' = "Hours"
                     /\ result' = Err(ParseErr(scanned'[Len(scanned')].span,
                                          ErrKind("UnexpectedColon", "", "")))
                     /\ ColonsScanned(scanned') = 3
                ELSE /\ cur' = (IF cur = "Minutes" THEN "Hours"
                                ELSE "Minutes")
                     /\ result' = Pending
                     /\ ColonsScanned(scanned') <= 2]_vars

\* ":::" has been scanned: the third colon, met at Hours, is refused with
\* its span.
C29_Witness ==
    /\ Done
    /\ input = <<":", ":", ":">>
    /\ cur = "Hours"
    /\ Len(scanned) = 3
    /\ result = Err(ParseErr(ByteSpan(0, 1),
                             ErrKind("UnexpectedColon", "", "")))

(***************************************************************************)
(* The place of a '.' in the colon grammar                                 *)
(***************************************************************************)

\* The tokens of kind typ among the first n tokens scanned.
KindScanned(typ, n) ==
    Cardinality({k \in 1..n : k <= Len(scanned) /\ scanned[k].typ = typ})

\* The scan has ended on token k, a '.', with UnexpectedDot(group).
DotRefused(k, group) ==
    /\ k = Len(scanned)
    /\ result = Err(ParseErr(scanned[k].span,
                             ErrKind("UnexpectedDot", group, "")))

\* C30: a '.' is accepted at most once and only in the seconds field, the
\* rightmost: a '.' scanned after one colon yields UnexpectedDot(Minutes),
\* after two UnexpectedDot(Hours), a second '.' of the seconds field
\* UnexpectedDot(SecondsInt), each on that '.'; UnexpectedDot(SecondsSub)
\* is never returned, and an accepted text holds one '.' at most, right
\* of every ':'.
C30_DotOnlyInSeconds ==
    /\ \A k \in 1..Len(scanned) :
           scanned[k].typ = "Dot"
               => CASE KindScanned("Colon", k - 1) = 1 ->
                           DotRefused(k, "Minutes")
                    [] KindScanned("Colon", k - 1) = 2 ->
                           DotRefused(k, "Hours")
                    [] KindScanned("Colon", k - 1) = 0
                           /\ KindScanned("Dot", k - 1) > 0 ->
                           DotRefused(k, "SecondsInt")
                    [] OTHER -> k < Len(scanned)
                                    \/ result.err.kind # "UnexpectedDot"
    /\ ~(result.err.kind = "UnexpectedDot" /\ result.err.arg = "SecondsSub")
    /\ (Done /\ result.kind = "Ok"
             /\ (entry = "parse_as_sw"
                    \/ (entry = "parse" /\ Grammar(input) = "sw")))
           => \A i \in 1..Len(input) :
                  input[i] = "."
                      => \A j \in 1..Len(input) :
                             /\ input[j] = ":" => j < i
                             /\ input[j] = "." => j = i

\* "0.3." has been refused: the '.' at byte 1 is the second of the
\* seconds field.
C30_Witness ==
    /\ Done /\ entry = "parse_as_sw"
    /\ input = <<"0", ".", "3", ".">>
    /\ Len(scanned) = 3
    /\ result = Err(ParseErr(ByteSpan(1, 1),
                             ErrKind("UnexpectedDot", "SecondsInt", "")))

(***************************************************************************)
(* Properties of Stopwatch                                                 *)
(***************************************************************************)

\* C22: start succeeds only on a stopped stopwatch and stop only on a
\* running one; start while running returns Err(AlreadyStarted) and stop
\* while stopped Err(AlreadyStopped), both leaving the elapsed time and
\* the running flag as they were; toggle always flips is_running.
C22_StartStopToggle ==
    /\ op.name = "start"
           => IF is_running(op.old)
              THEN /\ op.ret = "AlreadyStarted"
                   /\ watch = op.old
                   /\ Stopwatch_elapsed(watch, op.at)
                          = Stopwatch_elapsed(op.old, op.at)
              ELSE op.ret = "Ok" /\ is_running(watch)
    /\ op.name = "stop"
           => IF is_running(op.old)
              THEN op.ret = "Ok" /\ ~is_running(watch)
              ELSE /\ op.ret = "AlreadyStopped"
                   /\ watch = op.old
                   /\ Stopwatch_elapsed(watch, op.at)
                          = Stopwatch_elapsed(op.old, op.at)
    /\ op.name = "toggle" => is_running(watch) = ~is_running(op.old)

\* A stopwatch started at the first instant has been started again a
\* second later: AlreadyStarted, and it runs on from the first instant.
C22_Witness ==
    /\ op = Op("start", DurZero, "AlreadyStarted",
               Stopwatch(DurZero, SomeInstant(0)), 1)
    /\ watch = Stopwatch(DurZero, SomeInstant(0))
    /\ Stopwatch_elapsed(watch, clock) = from_secs(BigFromNat(clock))

\* C23: from any state reset leaves the stopwatch stopped with elapsed()
\* zero and set(d) leaves it stopped with elapsed() d, whatever the time
\* a run in progress had gathered.
C23_ResetAndSet ==
    /\ op.name = "reset"
           => /\ ~is_running(watch)
              /\ Stopwatch_elapsed(watch, clock) = DurZero
    /\ op.name = "set"
           => /\ ~is_running(watch)
              /\ Stopwatch_elapsed(watch, clock) = op.arg

\* A stopwatch that had run for two seconds has been set to half a
\* second: it is stopped and shows half a second.
C23_Witness ==
    /\ op.name = "set"
    /\ op.arg = Dur(<<>>, 500000000)
    /\ is_running(op.old)
    /\ Stopwatch_elapsed(op.old, op.at) = from_secs(BigFromNat(2))
    /\ ~is_running(watch)
    /\ Stopwatch_elapsed(watch, clock) = Dur(<<>>, 500000000)

\* elapsed() of a stopwatch w at the instant now plus d, and less d, as
\* numbers: the exact sum cut at Duration::MAX, the exact difference cut
\* at zero.
ElapsedPlus(w, now, d) ==
    LET e     == Stopwatch_elapsed(w, now)
        n     == e.nanos + d.nanos
        carry == n \div NanosPerSec
        secs  == BigAdd(BigAdd(e.secs, d.secs), BigFromNat(carry))
    IN  IF BigLess(U64Max, secs) THEN DurMax
        ELSE Dur(secs, n % NanosPerSec)

ElapsedLess(w, now, d) ==
    LET e == Stopwatch_elapsed(w, now)
    IN  IF dur_less(e, d) THEN DurZero
        ELSE CHOOSE x \in {saturating_sub(e, d)} :
                 dur_checked_add(x, d) = e

\* C24: add and sub never change is_running; add(d) raises elapsed() by d
\* up to Duration::MAX at most and sub(d) lowers elapsed() by d down to
\* zero at least, elapsed() being read at the instant of the call, so
\* that the time a running stopwatch has run is counted before d is
\* taken off.
C24_AddAndSub ==
    /\ op.name = "add"
           => /\ is_running(watch) = is_running(op.old)
              /\ Stopwatch_elapsed(watch, op.at)
                     = ElapsedPlus(op.old, op.at, op.arg)
    /\ op.name = "sub"
           => /\ is_running(watch) = is_running(op.old)
              /\ Stopwatch_elapsed(watch, op.at)
                     = ElapsedLess(op.old, op.at, op.arg)

\* A stopwatch that had run for two seconds has had a second taken off:
\* it runs on and shows one second at the instant of the call.
C24_Witness ==
    /\ op.name = "sub"
    /\ op.arg = from_secs(BigFromNat(1))
    /\ op.old = Stopwatch(DurZero, SomeInstant(0))
    /\ op.at = 2
    /\ is_running(watch)
    /\ Stopwatch_elapsed(watch, op.at) = from_secs(BigFromNat(1))

(***************************************************************************)
(* Properties of the command loop                                          *)
(***************************************************************************)

\* C25: at every prompt of the command loop exactly one of sw and
\* since_stop is running, and no Reset or Change has stopped on the
\* expect of since_stop.start().
C25_ExactlyOneRunning ==
    state # NoState
        => /\ is_running(state.sw) # is_running(state.since_stop)
           /\ is_running(state.sw)
                  => Stopwatch_start(state.since_stop, clock).ret = "Ok"
           /\ cmd.msg
                  # <<"since_stop and sw are never simultaneously running or stopped">>

\* A Reset of a running stopwatch has started since_stop, and a Change of
\* a running stopwatch likewise.
C25_Witness ==
    /\ cmd.name = "reset"
    /\ cmd.msg = <<"stopped and reset stopwatch">>
    /\ is_running(cmd.old.sw)
    /\ ~is_running(cmd.old.since_stop)
    /\ ~is_running(state.sw)
    /\ state.since_stop = Stopwatch(DurZero, SomeInstant(cmd.at))

\* The digits of a text typed as a precision, after one leading '+'.
PrecDigits(t) == IF Len(t) > 1 /\ Head(t) = "+" THEN Tail(t) ELSE t

\* The text is a number: digits only, one at least.
PrecNumeric(t) == PrecDigits(t) # <<>> /\ IsDigits(PrecDigits(t))

\* C26: the precision starts at 2 and never passes 9, so the assertion of
\* DurationFmt::new never fails; a Precision command with a number above 9
\* stores 9 and reports the clamp, with a number of at most 9 stores it,
\* with the empty text stores 2, and with a text that is no number leaves
\* the precision as it was.
C26_PrecisionAtMostNine ==
    state # NoState
        => /\ cmd = NoCmd => state.prec = 2
           /\ state.prec <= 9
           /\ cmd.name \in {"display", "toggle"} => cmd.alive
           /\ cmd.name = "precision"
                  => IF cmd.arg = <<>> THEN state.prec = 2
                     ELSE IF ~PrecNumeric(cmd.arg)
                          THEN /\ state.prec = cmd.old.prec
                               /\ cmd.msg # <<"precision clamped to 9">>
                     ELSE IF BigLess(BigFromNat(9),
                                     BigOfDigits(PrecDigits(cmd.arg)))
                          THEN /\ state.prec = 9
                               /\ cmd.msg = <<"precision clamped to 9">>
                     ELSE /\ state.prec
                               = BigToNat(BigOfDigits(PrecDigits(cmd.arg)))
                          /\ cmd.msg = <<"updated precision">>

(***************************************************************************)
(* The token sequence of SwLexer                                           *)
(***************************************************************************)

\* C31: every ':' '.' '+' '-' cluster of the text is a token of its own,
\* of one cluster, whatever stands next to it; every other token is a Data
\* token over a widest run of the remaining clusters; every cluster that
\* is neither whitespace nor such a token lies in a Data token; and no two
\* Data tokens follow each other.  The tokens parse_as_sw has scanned are
\* these, in this order.
C31_DelimitersAloneDataMerged ==
    Done => \E toks \in {AllTokens} :
        /\ \A i \in 1..Len(input) :
               single_token(input[i]) # "None"
                   => \E k \in 1..Len(toks) :
                          toks[k] = SwToken(single_token(input[i]),
                                            ByteSpan(Off(input, i), 1))
        /\ \A i \in 1..Len(input) :
               (single_token(input[i]) = "None" /\ ~IsWs(input[i]))
                   => \E k \in 1..Len(toks) :
                          /\ toks[k].typ = "Data"
                          /\ toks[k].span.start <= Off(input, i)
                          /\ Off(input, i) < SpanEnd(toks[k].span)
        /\ \A k \in 1..Len(toks) :
               /\ IsTokenOf(input, toks[k])
               /\ toks[k].typ # "Data" => toks[k].span.len = 1
               /\ k < Len(toks)
                      => ~(toks[k].typ = "Data" /\ toks[k + 1].typ = "Data")
        /\ \A k \in 1..Len(scanned) : scanned[k] = toks[k]

\* "0:3." has been scanned: the '.' and the ':' touch the data on both
\* sides and are tokens of their own.
C31_Witness ==
    /\ input = <<"0", ":", "3", ".">>
    /\ pc = "done"
    /\ scanned = <<SwToken("Dot", ByteSpan(3, 1)),
                   SwToken("Data", ByteSpan(2, 1)),
                   SwToken("Colon", ByteSpan(1, 1)),
                   SwToken("Data", ByteSpan(0, 1))>>
    /\ scanned = AllTokens

(***************************************************************************)
(* The overflow of the numerator of parse_frac                             *)
(***************************************************************************)

\* The numerator the first p clusters of the digit text d write over 10^w.
NumeratorOf(d, p, w) == BigOfDigits(PaddedTo(SubSeq(d, 1, p), w))

\* Adding digit p of d, within the width w, is what takes the numerator
\* past the 32-bit maximum.
OverflowsAt(d, w, p) ==
    /\ p \in 1..Len(d)
    /\ p <= w
    /\ IsDigits(SubSeq(d, 1, p))
    /\ BigLeq(NumeratorOf(d, p - 1, w), U32Max)
    /\ ~BigLeq(NumeratorOf(d, p, w), U32Max)

\* C32: parse_frac returns NumeratorOverflow{idx} exactly when adding the
\* digit at byte idx takes the numerator past u32::MAX, as in
\* ("4294967296", 10) with idx 9; at width 9 it never does and the value
\* is below 10^9, so parse_as_sw never reaches an unreachable! of its
\* subseconds step.
C32_NumeratorOverflowExact ==
    /\ (Done /\ entry = "parse_frac")
           => /\ \A p \in 1..Len(input) :
                     OverflowsAt(input, frac_places, p)
                         => frac_ret = FracNumeratorOverflow(Off(input, p))
              /\ frac_ret.kind = "NumeratorOverflow"
                     => \E p \in 1..Len(input) :
                            OverflowsAt(input, frac_places, p)
              /\ frac_places = 9
                     => /\ frac_ret.kind # "NumeratorOverflow"
                        /\ frac_ret.kind = "Ok"
                               => BigLess(frac_ret.val,
                                          BigFromNat(1000000000))
              /\ (/\ input = <<"4", "2", "9", "4", "9", "6", "7", "2", "9",
                               "6">>
                  /\ frac_places = 10)
                     => frac_ret = FracNumeratorOverflow(9)
    /\ (entry = "parse_as_sw" \/ (entry = "parse" /\ ContainsColon(input)))
           => result # Panic

\* parse_frac("4294967296", 10) has stopped at its last digit.
C32_Witness ==
    /\ Done /\ entry = "parse_frac"
    /\ input = <<"4", "2", "9", "4", "9", "6", "7", "2", "9", "6">>
    /\ frac_places = 10
    /\ OverflowsAt(input, frac_places, 10)
    /\ frac_ret = FracNumeratorOverflow(9)

(***************************************************************************)
(* The Change and Offset commands                                          *)
(***************************************************************************)

\* What the text typed at a prompt for a duration means, signs allowed:
\* the results of ReadDur::parse(text, true).
Typed(text) == ReadDurs[text][TRUE]

\* C33: a Change command has returned to the prompt, and either the text
\* typed was a duration that is not negative and sw is stopped with that
\* elapsed time, or the text was empty, negative or no duration and sw
\* and since_stop are as they were.
C33_ChangeSetsOrLeaves ==
    cmd.name = "change"
        => /\ cmd.alive
           /\ \A r \in Typed(cmd.arg) :
                  IF r.kind = "Ok" /\ ~r.is_neg
                  THEN /\ ~is_running(state.sw)
                       /\ Stopwatch_elapsed(state.sw, clock) = r.dur
                  ELSE /\ state.sw = cmd.old.sw
                       /\ state.since_stop = cmd.old.since_stop

\* The elapsed time of w at the instant now and d more do not fit a
\* Duration.
WouldOverflow(w, now, d) ==
    \/ checked_elapsed_at(w, now) = <<>>
    \/ dur_checked_add(checked_elapsed_at(w, now)[1], d) = NoDur

\* C34: an Offset command returns to the prompt with sw running or stopped
\* as it was.  A positive offset is added to the elapsed time, unless the
\* new elapsed time would overflow: then the error is reported and sw is
\* unchanged.  A negative offset is taken from the elapsed time, which is
\* zero when the offset is the larger.  An empty text and a text that is
\* no duration leave sw unchanged.
C34_OffsetKeepsRunning ==
    cmd.name = "offset"
        => /\ cmd.alive
           /\ is_running(state.sw) = is_running(cmd.old.sw)
           /\ \A r \in Typed(cmd.arg) :
                  CASE r.kind = "Ok" /\ ~r.is_neg ->
                         IF WouldOverflow(cmd.old.sw, cmd.at, r.dur)
                         THEN /\ state.sw = cmd.old.sw
                              /\ cmd.msg =
                                     <<"cannot add offset, new elapsed time would overflow">>
                         ELSE /\ Stopwatch_elapsed(state.sw, cmd.at)
                                     = ElapsedPlus(cmd.old.sw, cmd.at, r.dur)
                              /\ cmd.msg = <<"added to elapsed time">>
                    [] r.kind = "Ok" /\ r.is_neg ->
                         Stopwatch_elapsed(state.sw, cmd.at)
                             = ElapsedLess(cmd.old.sw, cmd.at, r.dur)
                    [] OTHER -> state.sw = cmd.old.sw

(***************************************************************************)
(* Stopping and syncing keep the elapsed time                              *)
(***************************************************************************)

\* Time advances for a running stopwatch.
RunsOn == is_running(watch) /\ clock' > clock /\ watch' = watch

\* C35: elapsed() read at the instant of a stop() or of a sync_elapsed()
\* is the same before and after it, and while the stopwatch runs with no
\* set, sub or reset, elapsed() never decreases: not as time advances, and
\* not over a call of add or start.
C35_StopAndSyncKeepElapsed ==
    /\ [](/\ (is_running(op.old)
                /\ \/ op.name \in {"stop", "toggle", "add", "start"}
                   \/ op.name = "sub" /\ op.arg = DurZero)
               => \E old \in {Stopwatch_elapsed(op.old, op.at)} :
                  \E new \in {Stopwatch_elapsed(watch, op.at)} :
                      IF op.name \in {"stop", "toggle"}
                      THEN ~is_running(watch) /\ new = old
                      ELSE IF op.name = "sub" THEN new = old
                      ELSE is_running(watch) /\ ~dur_less(new, old)
          /\ \E synced \in {sync_elapsed(watch, clock)} :
                 /\ Stopwatch_elapsed(synced, clock)
                        = Stopwatch_elapsed(watch, clock)
                 /\ is_running(synced) = is_running(watch))
    /\ [][RunsOn => \E before \in {Stopwatch_elapsed(watch, clock)} :
                        \E after \in {Stopwatch_elapsed(watch', clock')} :
                            ~dur_less(after, before)]_vars

\* A stopwatch that ran for two ticks from half a second is stopped and
\* reads two and a half seconds, as it did before the stop.
C35_Witness ==
    /\ op.name = "stop" /\ op.ret = "Ok"
    /\ op.old = Stopwatch(Dur(<<>>, 500000000), SomeInstant(0))
    /\ op.at = 2
    /\ watch = Stopwatch(Dur(BigFromNat(2), 500000000), NoInstant)
    /\ Stopwatch_elapsed(op.old, op.at) = Dur(BigFromNat(2), 500000000)
    /\ sync_elapsed(op.old, op.at)
           = Stopwatch(Dur(BigFromNat(2), 500000000), SomeInstant(2))

(***************************************************************************)
(* Which of several faults parse_as_sw reports                             *)
(***************************************************************************)

\* Token k of toks (the tokens from the right) cannot stand where it does:
\* a third ':', a '.' with a ':' or a '.' to its right, a sign that is not
\* the leftmost token.
Offending(toks, k) ==
    CASE toks[k].typ = "Colon" ->
             Cardinality({j \in 1..(k - 1) : toks[j].typ = "Colon"}) >= 2
      [] toks[k].typ = "Dot" ->
             \E j \in 1..(k - 1) : toks[j].typ \in {"Colon", "Dot"}
      [] toks[k].typ \in {"Pos", "Neg"} -> k < Len(toks)
      [] OTHER -> FALSE

\* The error kind of a token that cannot stand where it does.
StructuralKind(typ) ==
    CASE typ = "Colon" -> "UnexpectedColon"
      [] typ = "Dot"   -> "UnexpectedDot"
      [] OTHER         -> "UnexpectedSign"

\* The seconds a whole field of the scanned groups stands for, 0 for an
\* empty or unreadable one.
FieldSecs(g, per) ==
    BigMul(parse_u64(trim(get(groups[g], input))).val, per)

\* The field of group g cannot be read, or takes the seconds out of 64
\* bits by itself or with the fields before it.
Faulty(g) ==
    LET t == trim(get(groups[g], input))
        h == FieldSecs("Hours", SEC_PER_HOUR)
        m == FieldSecs("Minutes", SEC_PER_MIN)
        sec == FieldSecs("SecondsInt", 1)
    IN  /\ t # <<>>
        /\ CASE g = "SecondsSub" ->
                    parse_frac(get(groups[g], input), MAX_NANOS_CHARS).kind
                        # "Ok"
             [] g = "Hours" -> ~parse_u64(t).ok \/ ~FitsU64(h)
             [] g = "Minutes" ->
                    ~parse_u64(t).ok \/ ~FitsU64(m) \/ ~FitsU64(BigAdd(h, m))
             [] g = "SecondsInt" ->
                    \/ ~parse_u64(t).ok
                    \/ ~FitsU64(BigAdd(BigAdd(h, m), sec))

\* C36: of several faults of a text, parse_as_sw reports a structural one
\* (UnexpectedColon, UnexpectedDot, UnexpectedSign) before anything else,
\* on the rightmost offending token; otherwise Negative, when negatives
\* are not allowed, before any numeric fault; otherwise the numeric fault
\* of the most significant faulty field, in the order Hours, Minutes,
\* Seconds, Subseconds.
C36_FaultOrder ==
    (Done /\ entry = "parse_as_sw")
        => \E toks \in {AllTokens} :
           \E off \in {{k \in 1..Len(toks) : Offending(toks, k)}} :
           \E bad \in {{g \in Group : off = {} /\ Faulty(g)}} :
               IF off # {}
               THEN \E k \in off :
                        /\ \A j \in off : k <= j
                        /\ \A j \in off : toks[j].span.start
                                              <= toks[k].span.start
                        /\ result.kind = "Err"
                        /\ result.span = toks[k].span
                        /\ result.err.kind = StructuralKind(toks[k].typ)
               ELSE IF ~allow_neg /\ toks # <<>>
                           /\ toks[Len(toks)].typ = "Neg"
               THEN result = Err(ParseErr(toks[Len(toks)].span,
                                          ErrKind("Negative", "", "")))
               ELSE IF bad = {} THEN result.kind = "Ok"
               ELSE \E g \in bad :
                        /\ \A f \in bad : Rank(f) <= Rank(g)
                        /\ result.kind = "Err"
                        /\ result.err.kind \in {"Int", "DurationOverflow"}
                        /\ result.err.arg = g
                        /\ g # "SecondsSub" => result.span = groups[g]

\* "-s:s" with negatives not allowed: the minutes and the seconds cannot
\* be read, and Negative is what is reported, on the sign.
C36_Witness ==
    /\ Done /\ entry = "parse_as_sw" /\ ~allow_neg
    /\ input = <<"-", "s", ":", "s">>
    /\ Faulty("Minutes") /\ Faulty("SecondsInt")
    /\ result = Err(ParseErr(ByteSpan(0, 1), ErrKind("Negative", "", "")))

(***************************************************************************)
(* Where the Data tokens of the colon grammar are stored                   *)
(***************************************************************************)

\* The scan has returned one of the structural errors.
StructuralErr ==
    /\ result.kind = "Err"
    /\ result.err.kind \in {"UnexpectedColon", "UnexpectedDot",
                            "UnexpectedSign"}

\* parse_as_sw is running or has run, called directly or by parse.
InSw ==
    \/ pc = "scan"
    \/ /\ Done
       /\ \/ entry = "parse_as_sw"
          \/ entry = "parse" /\ input # <<>> /\ Grammar(input) = "sw"

\* The groups that hold the span of a token.
HeldBy(tok) == {g \in Group : groups[g] = tok.span}

\* Group g keeps what it holds in this step, or it is SecondsSub and hands
\* it to the empty SecondsInt.
KeepsOrHandsOver(g) ==
    \/ groups'[g] = groups[g]
    \/ /\ g = "SecondsSub"
       /\ groups["SecondsInt"].len = 0
       /\ groups'["SecondsInt"] = groups[g]
       /\ groups'[g].len = 0

\* C37: in a run of parse_as_sw that does not end in a structural error
\* each Data token is stored in exactly one of the four group spans, no
\* group span that holds a Data token is overwritten by a later one, and so
\* every typed cluster that is no separator, sign or whitespace lies in a
\* group span when the duration is computed.
C37_DataTokensKept ==
    /\ []((InSw /\ ~StructuralErr)
             => /\ \A k \in 1..Len(scanned) :
                       scanned[k].typ = "Data"
                           => Cardinality(HeldBy(scanned[k])) = 1
                /\ Done
                       => \A i \in 1..Len(input) :
                              (single_token(input[i]) = "None"
                                  /\ ~IsWs(input[i]))
                                  => \E g \in Group :
                                         /\ groups[g].start <= Off(input, i)
                                         /\ Off(input, i) < SpanEnd(groups[g]))
    /\ [][\A g \in Group : groups[g].len > 0 => KeepsOrHandsOver(g)]_vars

\* "3:0.5" has been scanned: the fraction, the seconds and the minutes
\* each hold one of the three Data tokens.
C37_Witness ==
    /\ Done /\ entry = "parse_as_sw"
    /\ input = <<"3", ":", "0", ".", "5">>
    /\ groups = [Groups_new EXCEPT !["SecondsSub"] = ByteSpan(4, 1),
                                   !["SecondsInt"] = ByteSpan(2, 1),
                                   !["Minutes"] = ByteSpan(0, 1)]
    /\ \A k \in {1, 3, 5} :
           scanned[k].typ = "Data" /\ Cardinality(HeldBy(scanned[k])) = 1
    /\ result.kind = "Ok"

(***************************************************************************)
(* The token sequence of SwLexer                                           *)
(***************************************************************************)

\* The tokens whose span contains cluster i of the input.
TokensOver(toks, i) ==
    {k \in 1..Len(toks) :
        /\ toks[k].span.start <= Off(input, i)
        /\ Off(input, i) < SpanEnd(toks[k].span)}

\* C38: for every input SwLexer yields a finite token sequence, of at most
\* one token per grapheme cluster, whose spans are pairwise disjoint, start
\* at strictly decreasing offsets and together contain every cluster that
\* is not whitespace exactly once; each token taken leaves the lexer fewer
\* clusters, and a lexer with none left yields no token.
C38_TokensFiniteDisjointCovering ==
    /\ [](Done
           => \E toks \in {AllTokens} :
                  /\ Len(toks) <= Len(input)
                  /\ \A k \in 1..Len(toks) : toks[k].span.len >= 1
                  /\ \A k \in 1..(Len(toks) - 1) :
                         /\ toks[k + 1].span.start < toks[k].span.start
                         /\ SpanEnd(toks[k + 1].span) <= toks[k].span.start
                  /\ \A i \in 1..Len(input) :
                         ~IsWs(input[i])
                             => Cardinality(TokensOver(toks, i)) = 1
                  /\ Len(scanned) <= Len(toks)
                  /\ \A k \in 1..Len(scanned) : scanned[k] = toks[k]
                  /\ SwLexer_next(input, 0).tok = NoToken)
    /\ [][Len(scanned') > Len(scanned)
              => /\ Len(scanned') = Len(scanned) + 1
                 /\ content' < content
                 /\ content' >= 0]_vars

\* The text of the lexer's whitespace test, " 1:2    45  6 : 4 ", has been
\* scanned to its end: five tokens for eighteen clusters, "2    45  6" one
\* of them.
C38_Witness ==
    /\ Done /\ entry = "parse_as_sw"
    /\ input = LexerTestText
    /\ Len(scanned) = 5
    /\ scanned = AllTokens
    /\ scanned[3] = SwToken("Data", ByteSpan(3, 10))
    /\ content = 0

====
